---- MODULE Spec2Model ----
(***************************************************************************)
(* State-machine model of KnowledgeBaseService (knowledge base indexing    *)
(* and retrieval engine): indexDocument, deleteDocument, indexDirectory,   *)
(* watchDirectory / stopWatching / stopAllWatching and the store they      *)
(* write.  Every action is one run of JavaScript between two awaits: the   *)
(* event loop runs a handler to its next await without interleaving, and   *)
(* any other pending continuation may run at an await.                     *)
(***************************************************************************)
EXTENDS Integers, Sequences, FiniteSets, TLC

(***************************************************************************)
(* Bounds of the model.                                                    *)
(***************************************************************************)
MaxTasks == 2          \* indexDocument calls in one behaviour
ChunkSize == 8         \* options.chunkSize, scaled down (characters)
ChunkOverlap == 2      \* options.chunkOverlap, scaled down (words)
ConceptSliceSize == 12 \* the 10000-character slice limit, scaled down
MaxConcurrentProcessing == 2  \* options.maxConcurrentProcessing, scaled down
MaxRuns == 2           \* indexDirectory calls in one behaviour
MaxHandles == 3        \* fs.watch handles created in one behaviour
MaxRequests == 2       \* withRetry calls of the OpenAI service in one behaviour

(***************************************************************************)
(* The file system is the environment: it is not state of the service,    *)
(* and any file may change between two steps.  Every step that reads the   *)
(* file system takes what it finds there as an input.  A text is a         *)
(* sequence of paragraphs, a paragraph a sequence of words separated by    *)
(* single spaces; paragraphs are separated by one blank line ("\n\n").     *)
(***************************************************************************)
Paths == {"a", "b", "c"}
\* the files callers index and delete one by one
Direct == {"a", "b"}
Dirs == {"d", "e"}
TextShort == << <<"aa", "bb">> >>
TextLong == << <<"aa", "bb">>, <<"cc", "dd">> >>
Texts == {TextShort, TextLong}

\* a path holds a readable text, nothing ("missing"), a file whose extraction
\* throws ("corrupt"), an entry on which statSync throws ("broken"), a text
\* file that readFileSync cannot read ("unreadable"), or a file of unknown
\* type that cannot be read as text either ("unsupported")
TextFile(t) == [kind |-> "text", text |-> t]
NoFile(k) == [kind |-> k, text |-> <<>>]
Missing == NoFile("missing")
Found == {"file", "missing", "broken"}   \* what existsSync and statSync find
FileStates ==
  {TextFile(t) : t \in Texts}
    \cup {NoFile(k) : k \in {"missing", "corrupt", "broken", "unreadable", "unsupported"}}

RECURSIVE SumLen(_)
SumLen(ws) == IF ws = <<>> THEN 0 ELSE Len(Head(ws)) + SumLen(Tail(ws))

\* paragraph.length: the words and the single spaces between them
ParagraphLen(p) == IF p = <<>> THEN 0 ELSE SumLen(p) + (Len(p) - 1)

RECURSIVE TextLen(_)
\* content.length: the paragraphs and the "\n\n" between them
TextLen(text) ==
  IF text = <<>> THEN 0
  ELSE ParagraphLen(Head(text))
       + (IF Len(text) > 1 THEN 2 + TextLen(Tail(text)) ELSE 0)

(***************************************************************************)
(* Chunk text.  currentChunk is a string; it is kept here as the sequence  *)
(* of its space-separated tokens (what split(' ') returns), a token being  *)
(* the sequence of words that "\n\n" joins inside it.                      *)
(***************************************************************************)
TokenLen(tok) == SumLen(tok) + 2 * (Len(tok) - 1)

RECURSIVE TokensLen(_)
TokensLen(toks) ==
  IF toks = <<>> THEN 0
  ELSE TokenLen(Head(toks)) + (IF Len(toks) > 1 THEN 1 + TokensLen(Tail(toks)) ELSE 0)

\* a paragraph as the tokens of its string
AsTokens(p) == [i \in 1..Len(p) |-> <<p[i]>>]

\* an append that takes the paragraph up to its first space
AppendParagraphCut(cur, p) ==
  IF cur = <<>> THEN <<<<p[1]>>>>
  ELSE SubSeq(cur, 1, Len(cur) - 1) \o << cur[Len(cur)] \o <<p[1]>> >>

\* currentChunk += (currentChunk ? '\n\n' : '') + paragraph
AppendParagraph(cur, p) ==
  IF cur = <<>> THEN AsTokens(p)
  ELSE SubSeq(cur, 1, Len(cur) - 1)
       \o << cur[Len(cur)] \o <<p[1]>> >>
       \o SubSeq(AsTokens(p), 2, Len(p))

\* words.slice(Math.max(0, words.length - overlap))
LastWords(cur, overlap) ==
  SubSeq(cur, (IF Len(cur) - overlap > 0 THEN Len(cur) - overlap ELSE 0) + 1, Len(cur))

RECURSIVE ChunkLoop(_, _, _, _, _)
\* the paragraph loop shared by chunkDocument and splitTextIntoChunks;
\* returns the chunk contents in order
ChunkLoop(paragraphs, cur, out, size, overlap) ==
  IF paragraphs = <<>>
  THEN IF cur # <<>> THEN Append(out, cur) ELSE out
  ELSE LET p == Head(paragraphs)
           rest == Tail(paragraphs)
       IN  IF p = <<>>
           THEN ChunkLoop(rest, cur, out, size, overlap)
           ELSE IF TokensLen(cur) + ParagraphLen(p) > size /\ TokensLen(cur) > 0
                THEN ChunkLoop(rest,
                               (IF overlap > 0
                                THEN LastWords(cur, overlap) \o AsTokens(p)
                                ELSE AsTokens(p)),
                               Append(out, cur), size, overlap)
                ELSE ChunkLoop(rest, AppendParagraph(cur, p), out, size, overlap)

\* CryptoJS.SHA256(filePath).toString(): a fixed injective image of the path
DocumentId(path) == "sha256:" \o path
DocIds == {DocumentId(p) : p \in Paths}

\* `chunk_${metadata.id}_${chunkIndex}`
ChunkId(docId, index) == <<"chunk", docId, index>>

\* chunkDocument(content, metadata): the chunk rows, index from 0
ChunkDocument(content, docId) ==
  LET cs == ChunkLoop(content, <<>>, <<>>, ChunkSize, ChunkOverlap)
  IN  [i \in 1..Len(cs) |->
         [id |-> ChunkId(docId, i - 1), documentId |-> docId,
          index |-> i - 1, content |-> cs[i]]]

\* splitTextIntoChunks(text, chunkSize, overlap)
SplitTextIntoChunks(text, size, overlap) == ChunkLoop(text, <<>>, <<>>, size, overlap)

\* the slices extractConcepts sends to the collaborator
ConceptSlices(content) ==
  IF TextLen(content) > ConceptSliceSize
  THEN SplitTextIntoChunks(content, ConceptSliceSize, 0)
  ELSE <<content>>

(***************************************************************************)
(* State.                                                                  *)
(***************************************************************************)
VARIABLES
  documents,        \* rows of table documents
  document_chunks,  \* rows of table document_chunks
  documents_fts,    \* rows of the full-text table, one per indexed rowid
  concepts,         \* rows of table concepts
  relationships,    \* rows of table relationships
  inTransaction,    \* whether a transaction is open on the connection this.db
  vectorStore,      \* whether this.vectorStore is set (a vector service)
  vectors,          \* chunk ids held by the vector service
  pendingDeletes,   \* deleteMany calls in flight (never awaited)
  tasks,            \* the indexDocument calls, by call number
  indexingProgress, \* this.indexingProgress
  runs,             \* the indexDirectory calls, by call number
  watchers,         \* this.watchers: directory -> handle, 0 when absent
  handles,          \* every fs.watch handle created: handle -> "open"|"closed"
  requests,         \* the withRetry calls of the OpenAI service, by number
  lastIndexed,      \* history: per path, the last completed indexDocument
  lastOp            \* history: the public call that has just returned

storeVars == <<documents, document_chunks, documents_fts, concepts, relationships,
               inTransaction>>
vectorVars == <<vectors, pendingDeletes>>
dirVars == <<indexingProgress, runs>>
watchVars == <<watchers, handles>>
serviceVars == <<vectorStore, requests>>
vars == <<documents, document_chunks, documents_fts, concepts,
          relationships, inTransaction, vectorStore, vectors, pendingDeletes, tasks,
          indexingProgress, runs, watchers, handles, requests, lastIndexed, lastOp>>

TaskIds == 1..MaxTasks
RunIds == 1..MaxRuns

\* line 219 declares document_chunks.document_id a foreign key; better-sqlite3
\* opens every connection with foreign keys enforced
ForeignKeysEnforced == TRUE

(***************************************************************************)
(* The store: each operator is one SQL statement (or the statements of one *)
(* save method) on the rows of a table.                                    *)
(***************************************************************************)
HasDocument(docs, id) == \E r \in docs : r.id = id

DocumentRows(docs, id) == {r \in docs : r.id = id}
ChunkRows(chs, id) == {r \in chs : r.documentId = id}
ContainsRows(rels, id) ==
  {r \in rels : r.sourceId = id /\ r.sourceType = "DOCUMENT"}

\* saveDocumentMetadata that inserts without looking for the row
SaveDocumentMetadataInsertOnly(docs, meta) == docs \cup {meta}

\* saveDocumentMetadata, the documents table: UPDATE when a row has the id,
\* INSERT otherwise
SaveDocumentMetadata(docs, meta) ==
  IF HasDocument(docs, meta.id)
  THEN {IF r.id = meta.id THEN meta ELSE r : r \in docs}
  ELSE docs \cup {meta}

\* saveDocumentMetadata, the full-text table: the entry of the row is deleted
\* and inserted again with empty content
FtsReset(fts, id) ==
  {x \in fts : x.doc # id} \cup {[doc |-> id, content |-> <<>>]}

\* saveDocumentChunk, the document_chunks table
SaveDocumentChunk(chs, chunk) ==
  IF \E r \in chs : r.id = chunk.id
  THEN {IF r.id = chunk.id THEN chunk ELSE r : r \in chs}
  ELSE chs \cup {chunk}

\* the foreign key rejects a chunk row whose document row is gone
ChunkSaveThrows(docs, chunk) ==
  ForeignKeysEnforced /\ ~HasDocument(docs, chunk.documentId)

\* a saveDocumentChunk that leaves the full-text entry alone
FtsAppendNothing(fts, docs, chunk) == fts

\* saveDocumentChunk, the full-text table: content = content || chunk
FtsAppend(fts, docs, chunk) ==
  IF HasDocument(docs, chunk.documentId)
  THEN {IF x.doc = chunk.documentId
        THEN [x EXCEPT !.content = Append(@, chunk.content)] ELSE x : x \in fts}
  ELSE fts

RECURSIVE SaveChunks(_, _, _, _, _)
\* the chunk loop of indexDocument without awaits: chunks from..upto saved
SaveChunks(st, docs, cks, from, upto) ==
  IF from > upto THEN st
  ELSE SaveChunks([chunks |-> SaveDocumentChunk(st.chunks, cks[from]),
                   fts |-> FtsAppend(st.fts, docs, cks[from])],
                  docs, cks, from + 1, upto)

\* what one document owns in the store
Snapshot(docs, chs, rels, id) ==
  [documents |-> DocumentRows(docs, id),
   chunks |-> ChunkRows(chs, id),
   contains |-> ContainsRows(rels, id)]

NoSnapshot == [documents |-> {}, chunks |-> {}, contains |-> {}]
NoPrev == [valid |-> FALSE, content |-> <<>>, id |-> "", chunkIds |-> {}]
\* history of a directory run: the files it selected, those whose
\* indexDocument resolved (ok) and rejected (bad), and whether it ran alone
NoCounts == [files |-> {}, ok |-> {}, bad |-> {}, alone |-> FALSE]
NoError == [class |-> "", filePath |-> ""]
\* no public call has just returned.  pass: the entries of the collaborator's
\* answer that the step has committed to the graph; type: what detectFileType
\* has resolved to; err: the error processFile has thrown
NoOp == [op |-> "none", arg |-> "", ret |-> "", why |-> "", wrote |-> FALSE,
         solo |-> FALSE, again |-> FALSE, pre |-> NoSnapshot, trail |-> <<>>,
         counts |-> NoCounts, origin |-> "", run |-> 0, pass |-> <<>>,
         type |-> "", err |-> NoError]

(***************************************************************************)
(* The concept graph.  A collaborator answer that parses to an array is a  *)
(* sequence of entries [name, type]; "" stands for an absent field.        *)
(* Weights are counted in halves: weight 1.0 is 2, the +0.5 step is 1.     *)
(***************************************************************************)
Lower(name) == CASE name = "Ada" -> "ada" [] name = "Bo" -> "bo" [] OTHER -> name
Upper(type) == CASE type = "person" -> "PERSON" [] type = "topic" -> "TOPIC"
                 [] OTHER -> type

\* CryptoJS.SHA256(concept.name.toLowerCase()).toString()
ConceptId(name) == "sha256:" \o Lower(name)

RelationshipId(src, tgt, type) == <<src, tgt, type>>

\* INSERT OR REPLACE: rows that clash on the primary key or on
\* UNIQUE(source_id, target_id, relationship_type) give way
InsertOrReplace(rels, row) ==
  {r \in rels : r.id # row.id
     /\ <<r.sourceId, r.targetId, r.type>> # <<row.sourceId, row.targetId, row.type>>}
  \cup {row}

\* a first loop that writes every CONTAINS edge at weight 1.0
UpsertConceptWeightOne(g, docId, c) ==
  IF c.name = "" \/ c.type = "" THEN g
  ELSE LET cid == ConceptId(c.name)
       IN  [concepts |->
              IF \E r \in g.concepts : r.id = cid
              THEN {IF r.id = cid THEN [r EXCEPT !.frequency = @ + 1] ELSE r
                    : r \in g.concepts}
              ELSE g.concepts \cup {[id |-> cid, name |-> c.name,
                                     type |-> Upper(c.type), frequency |-> 1]},
            relationships |->
              InsertOrReplace(g.relationships,
                [id |-> RelationshipId(docId, cid, "CONTAINS"),
                 sourceId |-> docId, sourceType |-> "DOCUMENT",
                 targetId |-> cid, targetType |-> Upper(c.type),
                 type |-> "CONTAINS", weight |-> 2])]

\* one pass of the first loop: the concept row, then the CONTAINS edge
UpsertConcept(g, docId, c) ==
  IF c.name = "" \/ c.type = "" THEN g
  ELSE LET cid == ConceptId(c.name)
           existing == {r \in g.concepts : r.id = cid}
           freq == IF existing = {} THEN 1
                   ELSE (CHOOSE r \in existing : TRUE).frequency + 1
       IN  [concepts |->
              IF existing = {}
              THEN g.concepts \cup {[id |-> cid, name |-> c.name,
                                     type |-> Upper(c.type), frequency |-> 1]}
              ELSE {IF r.id = cid THEN [r EXCEPT !.frequency = @ + 1] ELSE r
                    : r \in g.concepts},
            relationships |->
              InsertOrReplace(g.relationships,
                [id |-> RelationshipId(docId, cid, "CONTAINS"),
                 sourceId |-> docId, sourceType |-> "DOCUMENT",
                 targetId |-> cid, targetType |-> Upper(c.type),
                 type |-> "CONTAINS", weight |-> 2 * freq])]

RECURSIVE UpsertConcepts(_, _, _, _)
UpsertConcepts(g, docId, cs, i) ==
  IF i > Len(cs) THEN g
  ELSE UpsertConcepts(UpsertConcept(g, docId, cs[i]), docId, cs, i + 1)

\* a pair loop that takes 0.5 off the weight of an edge it finds
RelatePairDecays(rels, c1, c2) ==
  IF c1.name = "" \/ c2.name = "" THEN rels
  ELSE LET rid == RelationshipId(ConceptId(c1.name), ConceptId(c2.name), "RELATED")
       IN  IF \E r \in rels : r.id = rid
           THEN {IF r.id = rid THEN [r EXCEPT !.weight = @ - 1] ELSE r : r \in rels}
           ELSE rels \cup {[id |-> rid, sourceId |-> ConceptId(c1.name),
                            sourceType |-> Upper(c1.type),
                            targetId |-> ConceptId(c2.name),
                            targetType |-> Upper(c2.type),
                            type |-> "RELATED", weight |-> 2]}

\* one pass of the pair loop: the RELATED edge of entries i < j
RelatePair(rels, c1, c2) ==
  IF c1.name = "" \/ c2.name = "" THEN rels
  ELSE LET id1 == ConceptId(c1.name)
           id2 == ConceptId(c2.name)
           rid == RelationshipId(id1, id2, "RELATED")
       IN  IF \E r \in rels : r.id = rid
           THEN {IF r.id = rid THEN [r EXCEPT !.weight = @ + 1] ELSE r : r \in rels}
           ELSE rels \cup {[id |-> rid, sourceId |-> id1, sourceType |-> Upper(c1.type),
                            targetId |-> id2, targetType |-> Upper(c2.type),
                            type |-> "RELATED", weight |-> 2]}

\* concept1.type.toUpperCase() of the INSERT branch throws on an absent type
RelatePairThrows(rels, c1, c2) ==
  /\ c1.name # "" /\ c2.name # ""
  /\ ~\E r \in rels :
        r.id = RelationshipId(ConceptId(c1.name), ConceptId(c2.name), "RELATED")
  /\ (c1.type = "" \/ c2.type = "")

RECURSIVE RelatePairs(_, _, _, _)
\* the pair loop from (i, j) on; [rels, threw]
RelatePairs(st, cs, i, j) ==
  IF st.threw \/ i > Len(cs) THEN st
  ELSE IF j > Len(cs) THEN RelatePairs(st, cs, i + 1, i + 2)
  ELSE IF RelatePairThrows(st.rels, cs[i], cs[j])
       THEN [st EXCEPT !.threw = TRUE]
       ELSE RelatePairs([st EXCEPT !.rels = RelatePair(@, cs[i], cs[j])], cs, i, j + 1)

\* this.db.exec of BEGIN TRANSACTION, COMMIT or ROLLBACK on a connection with
\* a transaction open or not: whether one is open after it, and whether the
\* statement threw (BEGIN within a transaction, COMMIT or ROLLBACK without)
Exec(open, stmt) ==
  IF stmt = "BEGIN" THEN [open |-> TRUE, threw |-> open]
  ELSE [open |-> FALSE, threw |-> ~open]

\* catch blocks that log and leave the transaction as it is
ConceptsCatchLogsOnly(open, inner) == [open |-> open, threw |-> FALSE]

\* the catch blocks of processConceptsChunk, from the inner one (a throw of
\* JSON.parse or of the transaction) or from the outer one (a throw of
\* sendChatMessage): ROLLBACK; a ROLLBACK that throws in the inner block is
\* caught by the outer, whose ROLLBACK throws out of the method
ConceptsCatch(open, inner) ==
  LET x == Exec(open, "ROLLBACK")
  IN  IF inner /\ x.threw THEN Exec(x.open, "ROLLBACK") ELSE x

\* the two loops of the transaction: the graph as the statements have
\* written it when the loops end or a statement throws
ConceptWrites(g, docId, cs) ==
  LET g1 == UpsertConcepts(g, docId, cs, 1)
      p == RelatePairs([rels |-> g1.relationships, threw |-> FALSE], cs, 1, 2)
  IN  [concepts |-> g1.concepts, relationships |-> p.rels, threw |-> p.threw]

\* what processConceptsChunk leaves: the graph, whether a transaction is open
\* (x.open), whether the method threw (x.threw), whether the transaction failed
Left(g, x, failed) ==
  [concepts |-> g.concepts, relationships |-> g.relationships,
   open |-> x.open, threw |-> x.threw, failed |-> failed]

\* a processConceptsChunk that leaves its transaction to be committed later
ProcessConceptsChunkNoCommit(g, open, docId, r, dbFail) ==
  IF r.kind = "array"
  THEN Left(ConceptWrites(g, docId, r.concepts), [open |-> TRUE, threw |-> FALSE],
            dbFail)
  ELSE Left(g, ConceptsCatch(open, r.kind = "badjson"), FALSE)

\* processConceptsChunk from the settling of sendChatMessage with answer r
\* to its end.  dbFail: the last statement of the transaction throws.  The
\* rows written in a transaction that ROLLBACK ends are gone.
ProcessConceptsChunk(g, open, docId, r, dbFail) ==
  IF r.kind = "error" THEN Left(g, ConceptsCatch(open, FALSE), FALSE)
  ELSE IF r.kind = "badjson" THEN Left(g, ConceptsCatch(open, TRUE), FALSE)
  ELSE IF r.kind = "notarray" THEN Left(g, [open |-> open, threw |-> FALSE], FALSE)
  ELSE LET b == Exec(open, "BEGIN")
           w == ConceptWrites(g, docId, r.concepts)
       IN  IF b.threw THEN Left(g, ConceptsCatch(b.open, TRUE), TRUE)
           ELSE IF dbFail \/ w.threw
                THEN LET c == ConceptsCatch(b.open, TRUE)
                     IN  Left(IF c.open THEN w ELSE g, c, TRUE)
                ELSE Left(w, Exec(b.open, "COMMIT"), FALSE)

cAda == [name |-> "Ada", type |-> "person"]
cBo == [name |-> "Bo", type |-> "topic"]
ConceptLists == {<<cAda, cBo>>}
\* what the text-completion collaborator may answer to one slice: the call
\* throws ("error"), the answer is no JSON ("badjson"), JSON that is no array
\* ("notarray"), or an array of entries
Answer(kind, cs) == [kind |-> kind, concepts |-> cs]
Responses == {Answer(k, <<>>) : k \in {"error", "badjson", "notarray"}}
               \cup {Answer("array", cs) : cs \in ConceptLists}

(***************************************************************************)
(* indexDocument.  A call is a task; its pc names the await it is          *)
(* suspended on:                                                           *)
(*   "processFile"  await this.processFile(filePath)                       *)
(*   "save"         processFile has resolved; saveDocumentMetadata is next *)
(*   "embed"        await this.generateEmbedding(chunk.content)            *)
(*   "upsert"       await index.upsert([...])                              *)
(*   "concepts"     await openAIService.sendChatMessage(...) of a slice    *)
(*   "done"/"failed"  resolved / rejected, the caller has yet to go on     *)
(*   "over"         nothing of the call is left                            *)
(* generateSummary and extractKeyPoints catch every error and write        *)
(* nothing: they are awaits between "processFile" and "save" at which      *)
(* nothing of the call changes.                                            *)
(***************************************************************************)
FreeTask ==
  [pc |-> "free", path |-> "", origin |-> "", run |-> 0, emb |-> FALSE,
   content |-> <<>>, idx |-> 0, slice |-> 0, wrote |-> FALSE, solo |-> FALSE,
   pre |-> NoSnapshot, seen |-> "", type |-> ""]

ActivePcs == {"processFile", "save", "embed", "upsert", "concepts"}
Active(t) == tasks[t].pc \in ActivePcs
FreeTasks == {t \in TaskIds : tasks[t].pc = "free"}

\* a call that has resolved ("done") or rejected ("failed"): a directory run
\* has yet to count it, any other caller only logs
Over(task, outcome) ==
  IF task.origin = "dir"
  THEN [FreeTask EXCEPT !.pc = outcome, !.path = task.path, !.origin = "dir",
                        !.run = task.run]
  ELSE [FreeTask EXCEPT !.pc = "over"]

\* history: indexDocument(task.path) has just returned its documentId or
\* thrown.  wrote: it had written to the store; solo: from call to return no
\* other call worked on the document; again: it re-indexed, in sequence after
\* the last completed call on the path, content that had not changed; pre:
\* what the document owned in the store when the call was made; origin, run:
\* who made the call (the directory run, the watcher handle)
Returned(task, outcome) ==
  [NoOp EXCEPT
     !.op = "indexDocument", !.arg = task.path,
     !.ret = IF outcome = "done" THEN DocumentId(task.path) ELSE "threw",
     !.wrote = task.wrote,
     !.solo = task.solo,
     !.again = outcome = "done" /\ task.solo /\ lastIndexed[task.path].valid
                 /\ lastIndexed[task.path].content = task.content,
     !.pre = task.pre,
     !.origin = task.origin, !.run = task.run]

KnowledgeBaseErrors ==
  {"KnowledgeBaseError", "FileProcessingError", "DatabaseError", "EmbeddingError"}

\* what is thrown inside the try block of processFile for a file of a kind:
\* a FileProcessingError with the path by the existsSync check of the call
\* (atCall), by the catch of processPdf, processExcel, processCsv,
\* processWord or processMarkdown ("corrupt") and by the default branch
\* ("unsupported"); a plain Error by statSync and by readFileSync
Thrown(kind, path, atCall) ==
  IF (kind = "missing" /\ atCall) \/ kind \in {"corrupt", "unsupported"}
  THEN [class |-> "FileProcessingError", filePath |-> path]
  ELSE [class |-> "Error", filePath |-> ""]

\* a catch block that throws on what it has caught
ProcessFileCatchRethrows(err, path) == err

\* the catch block of processFile
ProcessFileCatch(err, path) ==
  IF err.class \in KnowledgeBaseErrors THEN err
  ELSE [class |-> "FileProcessingError", filePath |-> path]

\* the catch block of indexDocument
IndexDocumentCatch(err, path) ==
  IF err.class \in KnowledgeBaseErrors THEN err
  ELSE [class |-> "KnowledgeBaseError", filePath |-> ""]

\* what indexDocument(path) throws when processFile fails on a file of a kind
ExtractionError(kind, path, atCall) ==
  IndexDocumentCatch(ProcessFileCatch(Thrown(kind, path, atCall), path), path)

\* the tasks table after the calls indexDocument(calls[i].path) made in order
\* by one run of JavaScript.  processFile runs to its first await inside the
\* call: existsSync and statSync have thrown for a path found missing or
\* broken.  A call is solo while no other call works on its path.
RECURSIVE StartTasks(_, _, _, _, _)
StartTasks(tk, calls, origin, run, emb) ==
  IF calls = <<>> THEN tk
  ELSE LET free == {t \in TaskIds : tk[t].pc = "free"}
           t == CHOOSE x \in free : \A u \in free : x <= u
           p == Head(calls).path
           busy == {u \in TaskIds : tk[u].path = p /\ tk[u].pc \in ActivePcs}
           nt == [FreeTask EXCEPT
                    !.pc = "processFile",
                    !.path = p, !.origin = origin, !.run = run, !.emb = emb,
                    !.pre = Snapshot(documents, document_chunks, relationships,
                                     DocumentId(p)),
                    !.solo = busy = {}]
       IN  StartTasks([u \in TaskIds |->
                         IF u = t
                         THEN IF Head(calls).found \in {"missing", "broken"}
                              THEN Over(nt, "failed") ELSE nt
                         ELSE IF u \in busy THEN [tk[u] EXCEPT !.solo = FALSE]
                         ELSE tk[u]],
                      Tail(calls), origin, run, emb)

\* a public call indexDocument(path, options) by a caller of the service;
\* found: what existsSync and statSync find at the path
CallIndexDocument(path, emb, found) ==
  /\ FreeTasks # {}
  /\ tasks' = StartTasks(tasks, <<[path |-> path, found |-> found]>>, "direct", 0, emb)
  /\ lastOp' = IF found \in {"missing", "broken"}
               THEN [Returned([FreeTask EXCEPT !.path = path, !.solo = TRUE,
                                             !.origin = "direct"], "failed")
                       EXCEPT !.err = ExtractionError(found, path, TRUE)]
               ELSE NoOp
  /\ UNCHANGED <<storeVars, serviceVars, vectorVars, dirVars, watchVars,
                 lastIndexed>>

\* the call of task t throws
Fail(t, wrote) ==
  /\ tasks' = [tasks EXCEPT ![t] = Over(@, "failed")]
  /\ lastOp' = Returned([tasks[t] EXCEPT !.wrote = wrote], "failed")

\* processFile resolves or rejects: the file is read now and is f
ProcessFile(t, f) ==
  /\ tasks[t].pc = "processFile"
  /\ IF f.kind = "text"
     THEN /\ tasks' = [tasks EXCEPT ![t].pc = "save", ![t].content = f.text]
          /\ lastOp' = NoOp
     ELSE /\ tasks' = [tasks EXCEPT ![t] = Over(@, "failed")]
          /\ lastOp' = [Returned(tasks[t], "failed")
                          EXCEPT !.err = ExtractionError(f.kind, tasks[t].path, FALSE)]
  /\ UNCHANGED <<storeVars, serviceVars, vectorVars, dirVars, watchVars,
                 lastIndexed>>

\* a document row whose id does not depend on the path of the file
MetadataOfOneId(t) ==
  [id |-> DocumentId("a"), path |-> tasks[t].path, indexed |-> t]

\* the task's document row; indexed (new Date()) is told apart per call
Metadata(t) ==
  [id |-> DocumentId(tasks[t].path), path |-> tasks[t].path, indexed |-> t]

TaskChunks(t) == ChunkDocument(tasks[t].content, DocumentId(tasks[t].path))

\* saveDocumentMetadata, chunkDocument, and the chunk loop up to its first
\* await.  failAt = 0: the metadata statement throws; failAt = k in 1..n:
\* the save of chunk k throws; failAt = n + 1: nothing throws.
SaveDocument(t, failAt) ==
  /\ tasks[t].pc = "save"
  /\ LET meta == Metadata(t)
         cks == TaskChunks(t)
         n == Len(cks)
         docs == SaveDocumentMetadata(documents, meta)
         fts0 == FtsReset(documents_fts, meta.id)
         sync == ~tasks[t].emb \/ n = 0
         upto == IF failAt <= n THEN failAt - 1 ELSE n
         st == SaveChunks([chunks |-> document_chunks, fts |-> fts0],
                          docs, cks, 1, upto)
     IN  /\ failAt \in 0..(n + 1)
         /\ ~sync => failAt \in {0, n + 1}
         /\ IF failAt = 0
            THEN /\ Fail(t, FALSE)
                 /\ UNCHANGED <<documents, document_chunks, documents_fts>>
            ELSE /\ documents' = docs
                 /\ IF sync
                    THEN /\ document_chunks' = st.chunks
                         /\ documents_fts' = st.fts
                         /\ IF failAt <= n
                            THEN Fail(t, TRUE)
                            ELSE /\ tasks' = [tasks EXCEPT
                                      ![t].pc = "concepts", ![t].slice = 1,
                                      ![t].wrote = TRUE]
                                 /\ lastOp' = NoOp
                    ELSE /\ document_chunks' = document_chunks
                         /\ documents_fts' = fts0
                         /\ tasks' = [tasks EXCEPT ![t].pc = "embed", ![t].idx = 1,
                                                   ![t].wrote = TRUE]
                         /\ lastOp' = NoOp
  /\ UNCHANGED <<concepts, relationships, inTransaction, serviceVars, vectorVars,
                 dirVars, watchVars, lastIndexed>>

\* saveDocumentChunk(chunk) of the chunk the loop is at, then the loop goes on
\* to the next embedding or leaves for extractConcepts.  why: what the catch
\* of the embedding block has logged for the chunk ("embedding", "upsert"),
\* "embedded" when chunk.embedding has been set and no vector service is
\* there to take it
SaveChunkAndAdvance(t, dbFail, why) ==
  LET cks == TaskChunks(t)
      chunk == cks[tasks[t].idx]
  IN  IF dbFail \/ ChunkSaveThrows(documents, chunk)
      THEN /\ tasks' = [tasks EXCEPT ![t] = Over(@, "failed")]
           /\ lastOp' = [Returned([tasks[t] EXCEPT !.wrote = TRUE], "failed")
                           EXCEPT !.why = "saveDocumentChunk"]
           /\ UNCHANGED <<document_chunks, documents_fts>>
      ELSE /\ document_chunks' = SaveDocumentChunk(document_chunks, chunk)
           /\ documents_fts' = FtsAppend(documents_fts, documents, chunk)
           /\ tasks' = [tasks EXCEPT
                ![t].pc = IF tasks[t].idx < Len(cks) THEN "embed" ELSE "concepts",
                ![t].idx = @ + 1, ![t].slice = 1]
           /\ lastOp' = [NoOp EXCEPT !.why = why, !.arg = tasks[t].path]

\* an embedding block without its catch: the EmbeddingError ends the call
EmbeddingSettledThrows(t, ok, dbFail) ==
  /\ tasks[t].pc = "embed"
  /\ IF ok /\ vectorStore
     THEN /\ ~dbFail
          /\ tasks' = [tasks EXCEPT ![t].pc = "upsert"]
          /\ lastOp' = NoOp
          /\ UNCHANGED <<document_chunks, documents_fts>>
     ELSE IF ok THEN SaveChunkAndAdvance(t, dbFail, "")
     ELSE /\ ~dbFail
          /\ Fail(t, TRUE)
          /\ UNCHANGED <<document_chunks, documents_fts>>
  /\ UNCHANGED <<documents, concepts, relationships, inTransaction, serviceVars,
                 vectorVars, dirVars, watchVars, lastIndexed>>

\* generateEmbedding resolves (ok) or throws EmbeddingError, which is logged
EmbeddingSettled(t, ok, dbFail) ==
  /\ tasks[t].pc = "embed"
  /\ IF ok /\ vectorStore
     THEN /\ ~dbFail
          /\ tasks' = [tasks EXCEPT ![t].pc = "upsert"]
          /\ lastOp' = NoOp
          /\ UNCHANGED <<document_chunks, documents_fts>>
     ELSE SaveChunkAndAdvance(t, dbFail, IF ok THEN "embedded" ELSE "embedding")
  /\ UNCHANGED <<documents, concepts, relationships, inTransaction, serviceVars,
                 vectorVars, dirVars, watchVars, lastIndexed>>

\* index.upsert resolves (ok) or rejects, which is logged
UpsertSettled(t, ok, dbFail) ==
  /\ tasks[t].pc = "upsert"
  /\ vectors' = IF ok THEN vectors \cup {TaskChunks(t)[tasks[t].idx].id} ELSE vectors
  /\ SaveChunkAndAdvance(t, dbFail, IF ok THEN "" ELSE "upsert")
  /\ UNCHANGED <<documents, concepts, relationships, inTransaction, serviceVars,
                 pendingDeletes, dirVars, watchVars, lastIndexed>>

\* an indexDocument that throws when its concept extraction has failed
FinishOrThrow(t, chs, note) ==
  IF note.why # ""
  THEN /\ tasks' = [tasks EXCEPT ![t] = Over(@, "failed")]
       /\ lastOp' = [Returned(tasks[t], "failed") EXCEPT !.why = note.why]
       /\ UNCHANGED lastIndexed
  ELSE /\ tasks' = [tasks EXCEPT ![t] = Over(@, "done")]
       /\ lastOp' = Returned(tasks[t], "done")
       /\ lastIndexed' = [lastIndexed EXCEPT ![tasks[t].path] = NoPrev]

\* the task returns documentId; the history of its path is what it leaves,
\* unless another call worked on the document meanwhile.  note.why: how the
\* concept extraction of the last slice sent has failed, "" if it has not;
\* note.pass: the entries it has committed
Finish(t, chs, note) ==
  /\ tasks' = [tasks EXCEPT ![t] = Over(@, "done")]
  /\ lastOp' = [Returned(tasks[t], "done") EXCEPT !.why = note.why,
                                                  !.pass = note.pass]
  /\ lastIndexed' =
       [lastIndexed EXCEPT ![tasks[t].path] =
          IF tasks[t].solo
          THEN [valid |-> TRUE, content |-> tasks[t].content,
                id |-> DocumentId(tasks[t].path),
                chunkIds |-> {r.id : r \in ChunkRows(chs, DocumentId(tasks[t].path))}]
          ELSE NoPrev]

\* sendChatMessage of the slice settles with answer r, and processConceptsChunk
\* runs to its end.  After "error" and after "badjson" the catch block runs
\* ROLLBACK with no transaction open: that throws out of processConceptsChunk
\* into the catch of extractConcepts, which gives up the remaining slices.
ConceptsSettled(t, r, dbFail) ==
  /\ tasks[t].pc = "concepts"
  /\ r.kind # "array" => ~dbFail
  /\ LET docId == DocumentId(tasks[t].path)
         g == ProcessConceptsChunk([concepts |-> concepts,
                                    relationships |-> relationships],
                                   inTransaction, docId, r, dbFail)
         last == tasks[t].slice >= Len(ConceptSlices(tasks[t].content))
         note == [why |-> IF r.kind \in {"error", "badjson"} THEN r.kind
                          ELSE IF g.failed THEN "write" ELSE "",
                  pass |-> IF r.kind = "array" /\ ~g.failed THEN r.concepts
                           ELSE <<>>]
     IN  /\ concepts' = g.concepts /\ relationships' = g.relationships
         /\ inTransaction' = g.open
         /\ IF g.threw \/ last
            THEN Finish(t, document_chunks, note)
            ELSE /\ tasks' = [tasks EXCEPT ![t].slice = @ + 1]
                 /\ lastOp' = [NoOp EXCEPT !.arg = tasks[t].path,
                                           !.why = note.why, !.pass = note.pass]
                 /\ UNCHANGED lastIndexed
  /\ UNCHANGED <<documents, document_chunks, documents_fts, serviceVars,
                 vectorVars, dirVars, watchVars>>

(***************************************************************************)
(* deleteDocument: synchronous, one transaction on the store.  The vector  *)
(* service is asked first, and index.deleteMany(batch) is not awaited: the *)
(* request is in flight when deleteDocument returns, and its rejection     *)
(* reaches no handler.                                                     *)
(***************************************************************************)
PathOf(id) == CHOOSE p \in Paths : DocumentId(p) = id

\* deleteDocument that leaves the relationships of the document
DeleteRowsButContains(id) ==
  /\ relationships' = relationships
  /\ document_chunks' = document_chunks \ ChunkRows(document_chunks, id)
  /\ documents' = documents \ DocumentRows(documents, id)
  /\ documents_fts' = {x \in documents_fts : x.doc # id}

\* the three DELETE statements; the documents_ad trigger drops the full-text
\* entry of the deleted row
DeleteRows(id) ==
  /\ relationships' = relationships \ ContainsRows(relationships, id)
  /\ document_chunks' = document_chunks \ ChunkRows(document_chunks, id)
  /\ documents' = documents \ DocumentRows(documents, id)
  /\ documents_fts' = IF HasDocument(documents, id)
                      THEN {x \in documents_fts : x.doc # id}
                      ELSE documents_fts

\* result.changes > 0
DeleteResult(docs, id) == IF HasDocument(docs, id) THEN "true" ELSE "false"

\* history: deleteDocument(id) has just returned or thrown.  again: it
\* follows at once a deleteDocument(id) that returned true; pre: what the
\* document owned in the store when the call was made
Deleted(id, ret) ==
  [NoOp EXCEPT
     !.op = "deleteDocument", !.arg = id, !.ret = ret,
     !.again = lastOp.op = "deleteDocument" /\ lastOp.arg = id
                 /\ lastOp.ret = "true",
     !.pre = Snapshot(documents, document_chunks, relationships, id)]

\* dbFail: a statement of the transaction throws, ROLLBACK, DatabaseError
DeleteDocument(id, dbFail) ==
  /\ LET batch == {r.id : r \in ChunkRows(document_chunks, id)}
     IN  pendingDeletes' = IF ~inTransaction /\ vectorStore /\ batch # {}
                           THEN pendingDeletes \cup {batch}
                           ELSE pendingDeletes
  /\ IF Exec(inTransaction, "BEGIN").threw \/ dbFail
     THEN /\ UNCHANGED <<documents, document_chunks, documents_fts, relationships>>
          /\ inTransaction' = Exec(TRUE, "ROLLBACK").open
          /\ lastOp' = Deleted(id, "threw")
     ELSE /\ DeleteRows(id)
          /\ inTransaction' = Exec(TRUE, "COMMIT").open
          /\ lastOp' = Deleted(id, DeleteResult(documents, id))
  /\ tasks' = [t \in TaskIds |->
                 IF tasks[t].path = PathOf(id)
                 THEN [tasks[t] EXCEPT !.solo = FALSE] ELSE tasks[t]]
  /\ lastIndexed' = [lastIndexed EXCEPT ![PathOf(id)] = NoPrev]
  /\ UNCHANGED <<concepts, serviceVars, vectors, dirVars, watchVars>>

\* a deleteMany request in flight resolves (the vectors go) or rejects
VectorDeleteSettled(batch, ok) ==
  /\ batch \in pendingDeletes
  /\ pendingDeletes' = pendingDeletes \ {batch}
  /\ vectors' = IF ok THEN vectors \ batch ELSE vectors
  /\ lastOp' = NoOp
  /\ UNCHANGED <<storeVars, serviceVars, tasks, dirVars, watchVars,
                 lastIndexed>>

(***************************************************************************)
(* indexDirectory.  A call that goes on to index files is a run; its pc is *)
(* "running" while it awaits Promise.all of a batch.  options.fileTypes is *)
(* not given (no await before the first batch); listed is the list after   *)
(* the maxFiles cut.  Every step that assigns indexingProgress.status      *)
(* records in lastOp.trail the status before the step and then the         *)
(* statuses assigned, in order.                                            *)
(***************************************************************************)
IdleProgress == [total |-> 0, processed |-> 0, failed |-> 0, status |-> "idle"]

\* this.indexingProgress = { total: 0, processed: 0, failed: 0, status: 'indexing' }
BeginProgress == [total |-> 0, processed |-> 0, failed |-> 0, status |-> "indexing"]

\* a run that ends in the state the orchestrator has no transition into
CompletedAsPaused(progress) == [progress EXCEPT !.status = "paused"]

\* this.indexingProgress.status = 'completed'
Completed(progress) == [progress EXCEPT !.status = "completed"]

\* this.indexingProgress.status = 'error'
Errored(progress) == [progress EXCEPT !.status = "error"]

\* a batch callback that counts every file as processed
CountFileAsProcessed(progress, outcome) ==
  [progress EXCEPT !.processed = @ + 1]

\* the batch callback after its await: processed++ or failed++
CountFile(progress, outcome) ==
  IF outcome = "done"
  THEN [progress EXCEPT !.processed = @ + 1]
  ELSE [progress EXCEPT !.failed = @ + 1]

FreeRun == [pc |-> "free", dir |-> "", listed |-> <<>>, pos |-> 0,
            ok |-> {}, bad |-> {}, alone |-> FALSE]
OverRun == [FreeRun EXCEPT !.pc = "over"]
FreeRuns == {r \in RunIds : runs[r].pc = "free"}

Range(seq) == {seq[i] : i \in 1..Len(seq)}

\* filesToProcess.slice(pos, pos + batchSize)
Batch(listed, pos) ==
  SubSeq(listed, pos + 1,
         IF pos + MaxConcurrentProcessing < Len(listed)
         THEN pos + MaxConcurrentProcessing ELSE Len(listed))

\* batch.map(async (file) => ...): the calls of indexDocument of a batch
BatchCalls(batch) == [i \in 1..Len(batch) |-> [path |-> batch[i], found |-> "file"]]

\* a Promise.all that waits for no call of the batch
DirTasksNone(tk, r) == {}

\* tasks of directory runs that have not been counted yet
DirTasks(tk, r) ==
  {t \in TaskIds : tk[t].origin = "dir" /\ tk[t].run = r /\ tk[t].pc # "free"}

\* history: indexDirectory has just returned its snapshot or thrown
RunEnded(dir, ret, why, trail, counts) ==
  [NoOp EXCEPT !.op = "indexDirectory", !.arg = dir, !.ret = ret, !.why = why,
               !.trail = trail, !.counts = counts]

\* "this.indexingProgress = {...}" takes the progress object from the runs
\* that are under way
Overlapped(rs) ==
  [r \in RunIds |-> IF rs[r].pc = "running" THEN [rs[r] EXCEPT !.alone = FALSE]
                    ELSE rs[r]]

\* a public call indexDirectory(dir, options), up to its first await or its
\* end.  root: what existsSync and readdirSync find at dir; broken: statSync
\* throws on an entry below dir; cbThrows: options.onProgress throws.
CallIndexDirectory(dir, root, listed, broken, cbThrows) ==
  LET old == indexingProgress.status
      quiet == \A r \in RunIds : runs[r].pc # "running" /\ DirTasks(tasks, r) = {}
      counts == [files |-> Range(listed), ok |-> {}, bad |-> {}, alone |-> quiet]
      begun == [BeginProgress EXCEPT !.total = Len(listed)]
      r == CHOOSE x \in FreeRuns : \A y \in FreeRuns : x <= y
      batch == Batch(listed, 0)
  IN  /\ root # "ok" => listed = <<>> /\ ~broken
      /\ (root # "ok" \/ broken) => ~cbThrows
      /\ IF root = "missing"
         THEN /\ lastOp' = RunEnded(dir, "threw", "rootMissing", <<>>, counts)
              /\ UNCHANGED <<indexingProgress, runs, tasks>>
         ELSE IF root = "unreadable" \/ broken
         THEN /\ indexingProgress' = Errored(BeginProgress)
              /\ runs' = Overlapped(runs)
              /\ lastOp' = RunEnded(dir, "threw",
                                    IF broken THEN "entry" ELSE "rootUnreadable",
                                    <<old, BeginProgress.status, Errored(begun).status>>,
                                    counts)
              /\ UNCHANGED tasks
         ELSE IF cbThrows
         THEN /\ indexingProgress' = Errored(begun)
              /\ runs' = Overlapped(runs)
              /\ lastOp' = RunEnded(dir, "threw", "callback",
                                    <<old, BeginProgress.status, Errored(begun).status>>,
                                    counts)
              /\ UNCHANGED tasks
         ELSE IF listed = <<>>
         THEN /\ indexingProgress' = Completed(begun)
              /\ runs' = Overlapped(runs)
              /\ lastOp' = RunEnded(dir, "returned", "",
                                    <<old, BeginProgress.status,
                                      Completed(begun).status>>, counts)
              /\ UNCHANGED tasks
         ELSE /\ FreeRuns # {}
              /\ Cardinality(FreeTasks) >= Len(batch)
              /\ indexingProgress' = begun
              /\ runs' = [Overlapped(runs) EXCEPT ![r] =
                            [pc |-> "running", dir |-> dir, listed |-> listed,
                             pos |-> Len(batch), ok |-> {}, bad |-> {},
                             alone |-> quiet]]
              /\ tasks' = StartTasks(tasks, BatchCalls(batch), "dir", r, FALSE)
              /\ lastOp' = [NoOp EXCEPT !.trail = <<old, BeginProgress.status>>]
      /\ UNCHANGED <<storeVars, serviceVars, vectorVars, watchVars, lastIndexed>>

\* the batch callback of task t goes on after "await this.indexDocument":
\* it counts the file and calls options.onProgress, which may throw.  Then
\* Promise.all rejects, or resolves when the batch has no call left, and the
\* run goes on to its next batch or to its end.
Settle(t, cbThrows) ==
  /\ tasks[t].pc \in {"done", "failed"}
  /\ LET r == tasks[t].run
         p == tasks[t].path
         old == indexingProgress.status
         counted == CountFile(indexingProgress, tasks[t].pc)
         tk == [tasks EXCEPT ![t] = FreeTask]
         run == [runs[r] EXCEPT
                   !.ok = IF tasks[t].pc = "done" THEN @ \cup {p} ELSE @,
                   !.bad = IF tasks[t].pc = "failed" THEN @ \cup {p} ELSE @]
         counts == [files |-> Range(run.listed), ok |-> run.ok, bad |-> run.bad,
                    alone |-> run.alone]
         batch == Batch(run.listed, run.pos)
     IN  IF runs[r].pc # "running"
         THEN /\ indexingProgress' = counted
              /\ tasks' = tk
              /\ lastOp' = NoOp
              /\ UNCHANGED runs
         ELSE IF cbThrows
         THEN /\ indexingProgress' = Errored(counted)
              /\ tasks' = tk
              /\ runs' = [runs EXCEPT ![r] = OverRun]
              /\ lastOp' = RunEnded(run.dir, "threw", "callback",
                                    <<old, Errored(counted).status>>, counts)
         ELSE IF DirTasks(tk, r) # {}
         THEN /\ indexingProgress' = counted
              /\ tasks' = tk
              /\ runs' = [runs EXCEPT ![r] = run]
              /\ lastOp' = NoOp
         ELSE IF batch # <<>>
         THEN /\ Cardinality({u \in TaskIds : tk[u].pc = "free"}) >= Len(batch)
              /\ indexingProgress' = counted
              /\ tasks' = StartTasks(tk, BatchCalls(batch), "dir", r, FALSE)
              /\ runs' = [runs EXCEPT ![r] = [run EXCEPT !.pos = @ + Len(batch)]]
              /\ lastOp' = NoOp
         ELSE /\ indexingProgress' = Completed(counted)
              /\ tasks' = tk
              /\ runs' = [runs EXCEPT ![r] = OverRun]
              /\ lastOp' = RunEnded(run.dir, "returned", "",
                                    <<old, Completed(counted).status>>, counts)
  /\ UNCHANGED <<storeVars, serviceVars, vectorVars, watchVars, lastIndexed>>

(***************************************************************************)
(* Watchers.  handles are the FSWatcher objects fs.watch has returned, in  *)
(* the order of their creation; watchers is the Map from a directory to    *)
(* the handle registered for it (0: no entry).  A handle keeps the         *)
(* options.fileTypes its watchDirectory call was given.                    *)
(***************************************************************************)
HandleIds == 1..Len(handles)

\* the files an event of a watcher of dir can name
FilesUnder(dir) == IF dir = "d" THEN {"a", "b"} ELSE {"c"}

\* a close that leaves the watcher running
CloseHandleNot(hs, h) == hs

\* watcher.close()
CloseHandle(hs, h) == [hs EXCEPT ![h].open = FALSE]

\* history: a call on the registry has just returned or thrown
WatchOp(op, dir, ret) == [NoOp EXCEPT !.op = op, !.arg = dir, !.ret = ret]

\* watchDirectory(dir, options).  fileTypes: options.fileTypes, {} for none
\* or an empty list; found: what existsSync finds at dir; watchThrows:
\* fs.watch throws
WatchDirectory(dir, fileTypes, found, watchThrows) ==
  LET had == watchers[dir] # 0
      closed == IF had THEN CloseHandle(handles, watchers[dir]) ELSE handles
  IN  /\ found \in {"file", "missing"}
      /\ found = "missing" => ~watchThrows
      /\ IF found = "missing"
         THEN /\ lastOp' = WatchOp("watchDirectory", dir, "threw")
              /\ UNCHANGED <<watchers, handles>>
         ELSE IF watchThrows
         THEN /\ handles' = closed
              /\ watchers' = [watchers EXCEPT ![dir] = 0]
              /\ lastOp' = WatchOp("watchDirectory", dir, "threw")
         ELSE /\ Len(handles) < MaxHandles
              /\ handles' = Append(closed, [dir |-> dir, open |-> TRUE,
                                             fileTypes |-> fileTypes])
              /\ watchers' = [watchers EXCEPT ![dir] = Len(handles) + 1]
              /\ lastOp' = WatchOp("watchDirectory", dir, "returned")
      /\ UNCHANGED <<storeVars, serviceVars, vectorVars, tasks, dirVars,
                     lastIndexed>>

\* a stopWatching that also drops the calls the watcher's events have started
StopWatchingAborts(dir) ==
  /\ IF watchers[dir] # 0
     THEN /\ handles' = CloseHandle(handles, watchers[dir])
          /\ watchers' = [watchers EXCEPT ![dir] = 0]
     ELSE UNCHANGED <<watchers, handles>>
  /\ tasks' = [t \in TaskIds |->
                IF tasks[t].origin = "watch" /\ tasks[t].run = watchers[dir]
                   /\ Active(t)
                THEN [FreeTask EXCEPT !.pc = "over"] ELSE tasks[t]]
  /\ lastOp' = WatchOp("stopWatching", dir, "returned")
  /\ UNCHANGED <<storeVars, serviceVars, vectorVars, dirVars, lastIndexed>>

\* stopWatching(dir)
StopWatching(dir) ==
  /\ IF watchers[dir] # 0
     THEN /\ handles' = CloseHandle(handles, watchers[dir])
          /\ watchers' = [watchers EXCEPT ![dir] = 0]
     ELSE UNCHANGED <<watchers, handles>>
  /\ lastOp' = WatchOp("stopWatching", dir, "returned")
  /\ UNCHANGED <<storeVars, serviceVars, vectorVars, tasks, dirVars,
                 lastIndexed>>

RECURSIVE StopEntries(_, _)
\* the loop of stopAllWatching over this.watchers.entries(): the iterator of
\* a Map goes on to the entries that are left when the one it is at is deleted
StopEntries(st, left) ==
  IF left = {} THEN st
  ELSE LET dir == CHOOSE d \in left : TRUE
       IN  StopEntries([handles |-> CloseHandle(st.handles, st.watchers[dir]),
                        watchers |-> [st.watchers EXCEPT ![dir] = 0]],
                       left \ {dir})

\* stopAllWatching()
StopAllWatching ==
  /\ LET st == StopEntries([handles |-> handles, watchers |-> watchers],
                           {d \in Dirs : watchers[d] # 0})
     IN  handles' = st.handles /\ watchers' = st.watchers
  /\ lastOp' = WatchOp("stopAllWatching", "", "returned")
  /\ UNCHANGED <<storeVars, serviceVars, vectorVars, tasks, dirVars,
                 lastIndexed>>

\* history of a call the callback of a watcher makes: the tasks table tk with
\* the slot that was free in old and holds the call now marked with what
\* existsSync and statSync had found when the event was handled and with
\* what detectFileType had resolved to ("" when it was not called)
Stamp(tk, old, seen, type) ==
  [u \in TaskIds |->
     IF old[u].pc = "free" /\ tk[u].pc \in ActivePcs
     THEN [tk[u] EXCEPT !.seen = seen, !.type = type] ELSE tk[u]]

\* a callback that does not look at what existsSync and statSync find
WatchEventUnchecked(h, filename, found, type) ==
  /\ h \in HandleIds
  /\ handles[h].open
  /\ filename \in FilesUnder(handles[h].dir)
  /\ (handles[h].fileTypes = {}) <=> (type = "")
  /\ FreeTasks # {}
  /\ IF handles[h].fileTypes # {}
     THEN LET t == CHOOSE x \in FreeTasks : \A u \in FreeTasks : x <= u
          IN  tasks' = [tasks EXCEPT ![t] =
                          [FreeTask EXCEPT !.pc = "detect", !.path = filename,
                                           !.origin = "watch", !.run = h,
                                           !.seen = found, !.type = type]]
     ELSE tasks' = Stamp(StartTasks(tasks, <<[path |-> filename, found |-> found]>>,
                                    "watch", h, FALSE), tasks, found, type)
  /\ lastOp' = NoOp
  /\ UNCHANGED <<storeVars, serviceVars, vectorVars, dirVars, watchVars,
                 lastIndexed>>

\* the callback of handle h runs for a change event, as far as its first
\* await.  filename "" is the event without a name; found: what existsSync
\* and statSync find at the file ("directory": something that is no regular
\* file; "broken": statSync throws, which is caught and logged); type: what
\* the call of detectFileType, made when the watcher has a type filter,
\* resolves to from the extension or the bytes of the file as it is now.
\* With a filter the callback is suspended on detectFileType ("detect"),
\* without one on the indexDocument it has called.
WatchEvent(h, filename, found, type) ==
  /\ h \in HandleIds
  /\ handles[h].open
  /\ filename \in FilesUnder(handles[h].dir) \cup {""}
  /\ filename = "" => found = "missing"
  /\ (handles[h].fileTypes = {} \/ filename = "" \/ found # "file") <=> (type = "")
  /\ IF filename = "" \/ found # "file"
     THEN /\ lastOp' = NoOp
          /\ UNCHANGED tasks
     ELSE IF handles[h].fileTypes # {}
     THEN /\ FreeTasks # {}
          /\ LET t == CHOOSE x \in FreeTasks : \A u \in FreeTasks : x <= u
             IN  tasks' = [tasks EXCEPT ![t] =
                             [FreeTask EXCEPT !.pc = "detect", !.path = filename,
                                              !.origin = "watch", !.run = h,
                                              !.seen = found, !.type = type]]
          /\ lastOp' = NoOp
     ELSE /\ FreeTasks # {}
          /\ tasks' = Stamp(StartTasks(tasks, <<[path |-> filename, found |-> "file"]>>,
                                       "watch", h, FALSE), tasks, found, type)
          /\ lastOp' = NoOp
  /\ UNCHANGED <<storeVars, serviceVars, vectorVars, dirVars, watchVars,
                 lastIndexed>>

\* the callback suspended on detectFileType goes on: it returns when the
\* type is not in the filter of its watcher, and calls indexDocument when it
\* is.  found: what existsSync and statSync of processFile find now.
DetectSettled(t, found) ==
  /\ t \in TaskIds
  /\ tasks[t].pc = "detect"
  /\ LET task == tasks[t]
         freed == [tasks EXCEPT ![t] = FreeTask]
     IN  IF task.type \in handles[task.run].fileTypes
         THEN /\ tasks' = Stamp(StartTasks(freed, <<[path |-> task.path,
                                                     found |-> found]>>,
                                           "watch", task.run, FALSE),
                                freed, task.seen, task.type)
              /\ lastOp' = IF found \in {"missing", "broken"}
                           THEN [Returned([FreeTask EXCEPT !.path = task.path,
                                                         !.solo = TRUE,
                                                         !.origin = "watch",
                                                         !.run = task.run],
                                          "failed")
                                   EXCEPT !.err = ExtractionError(found, task.path, TRUE)]
                           ELSE NoOp
         ELSE /\ tasks' = [tasks EXCEPT ![t] =
                             [FreeTask EXCEPT !.pc = "over", !.type = task.type]]
              /\ lastOp' = NoOp
  /\ UNCHANGED <<storeVars, serviceVars, vectorVars, dirVars, watchVars,
                 lastIndexed>>

(***************************************************************************)
(* The retry wrapper of the OpenAI service.  One run of JavaScript between *)
(* two awaits of withRetry is one action.                                  *)
(***************************************************************************)
RequestIds == 1..MaxRequests

\* private retryCount = 3
RetryCount == 3

\* how an attempt settles: fn() resolves ("ok") or rejects with an error of
\* an HTTP status, or with one that has no status ("none": the network, a
\* timeout)
ErrorStatuses == {"401", "400", "429", "500", "none"}
Outcomes == {"ok"} \cup ErrorStatuses

\* a withRetry call: attempt is the loop variable, lastError the status of
\* the error last caught ("" before any), calls the invocations of fn so
\* far, outcomes (history) how they settled, result and error what the call
\* has returned or thrown
IdleRequest ==
  [pc |-> "idle", attempt |-> 0, lastError |-> "", calls |-> 0,
   outcomes |-> <<>>, result |-> 0, error |-> ""]

\* a wrapper that goes on after an invalid request
StopsRetryingOn401(status) == status = "401"

\* error?.status === 401 || error?.status === 400: break
StopsRetrying(status) == status \in {"401", "400"}

\* a wrapper that takes every failure with a status for a rate limit
ErrorClassByPresence(lastError) ==
  IF lastError = "401" THEN "APIKeyError"
  ELSE IF lastError # "none" THEN "RateLimitError"
  ELSE "OpenAIServiceError"

\* the throw statements after the loop
ErrorClass(lastError) ==
  IF lastError = "401" THEN "APIKeyError"
  ELSE IF lastError = "429" THEN "RateLimitError"
  ELSE "OpenAIServiceError"

\* the loop test and, when it holds, the call of fn; the throw when it does
\* not
LoopTest(req) ==
  IF req.attempt < RetryCount
  THEN [req EXCEPT !.pc = "attempt", !.calls = @ + 1]
  ELSE [req EXCEPT !.pc = "threw", !.error = ErrorClass(req.lastError)]

\* withRetry(fn) is called: it runs to the await of the first fn()
CallWithRetry(q) ==
  /\ q \in RequestIds
  /\ requests[q].pc = "idle"
  /\ requests' = [requests EXCEPT ![q] = LoopTest(@)]
  /\ UNCHANGED <<storeVars, vectorStore, vectorVars, tasks, dirVars, watchVars,
                 lastIndexed, lastOp>>

\* the fn() awaited settles.  The result of the n-th invocation is n.
AttemptSettled(q, outcome) ==
  /\ q \in RequestIds
  /\ requests[q].pc = "attempt"
  /\ LET req == [requests[q] EXCEPT !.outcomes = Append(@, outcome)]
     IN  requests' = [requests EXCEPT ![q] =
           IF outcome = "ok"
           THEN [req EXCEPT !.pc = "returned", !.result = req.calls]
           ELSE IF StopsRetrying(outcome)
           THEN [req EXCEPT !.lastError = outcome, !.pc = "threw",
                            !.error = ErrorClass(outcome)]
           ELSE [req EXCEPT !.lastError = outcome, !.pc = "backoff"]]
  /\ UNCHANGED <<storeVars, vectorStore, vectorVars, tasks, dirVars, watchVars,
                 lastIndexed, lastOp>>

\* the timer of the backoff fires: attempt++, then the loop test
BackoffElapsed(q) ==
  /\ q \in RequestIds
  /\ requests[q].pc = "backoff"
  /\ requests' = [requests EXCEPT ![q] = LoopTest([@ EXCEPT !.attempt = @ + 1])]
  /\ UNCHANGED <<storeVars, vectorStore, vectorVars, tasks, dirVars, watchVars,
                 lastIndexed, lastOp>>

(***************************************************************************)
(* The service after construction, with (vs) or without a vector service.  *)
(***************************************************************************)

InitWith(vs) ==
  /\ documents = {} /\ document_chunks = {} /\ documents_fts = {}
  /\ concepts = {} /\ relationships = {}
  /\ inTransaction = FALSE
  /\ vectorStore = vs
  /\ vectors = {} /\ pendingDeletes = {}
  /\ tasks = [t \in TaskIds |-> FreeTask]
  /\ indexingProgress = IdleProgress
  /\ runs = [r \in RunIds |-> FreeRun]
  /\ watchers = [d \in Dirs |-> 0]
  /\ handles = <<>>
  /\ requests = [q \in RequestIds |-> IdleRequest]
  /\ lastIndexed = [p \in Paths |-> NoPrev]
  /\ lastOp = NoOp

Init == InitWith(FALSE)

\* direct calls of indexDocument and deleteDocument, no vector service
Next ==
  \/ \E p \in Direct, emb \in BOOLEAN, found \in Found : CallIndexDocument(p, emb, found)
  \/ \E t \in TaskIds, f \in FileStates : ProcessFile(t, f)
  \/ \E t \in TaskIds, failAt \in 0..3 : SaveDocument(t, failAt)
  \/ \E t \in TaskIds, ok \in BOOLEAN, dbFail \in BOOLEAN : EmbeddingSettled(t, ok, dbFail)
  \/ \E t \in TaskIds, r \in Responses, dbFail \in BOOLEAN : ConceptsSettled(t, r, dbFail)
  \/ \E p \in Direct, dbFail \in BOOLEAN : DeleteDocument(DocumentId(p), dbFail)

Spec == Init /\ [][Next]_vars

(***************************************************************************)
(* Re-indexing and deletion of one document at a time.                     *)
(***************************************************************************)
ChunkIdsOf(chs, id) == {r.id : r \in ChunkRows(chs, id)}

\* C1: when indexDocument(path) returns for the second time in sequence on
\* content that has not changed, it returns the documentId the first call
\* returned, the store holds exactly one document row of that id, and the
\* chunk rows of the document have the ids they had after the first call
\* (so the same count).
ReindexIsIdempotent ==
  [][(lastOp'.op = "indexDocument" /\ lastOp'.again) =>
       LET p == lastOp'.arg
           id == lastIndexed[p].id
       IN  /\ lastOp'.ret = id
           /\ Cardinality(DocumentRows(documents', id)) = 1
           /\ ChunkIdsOf(document_chunks', id) = lastIndexed[p].chunkIds
           /\ Cardinality(ChunkRows(document_chunks', id))
                = Cardinality(lastIndexed[p].chunkIds)]_vars

\* a second call in sequence on an unchanged two-chunk document has returned
ReindexedUnchanged ==
  /\ lastOp.op = "indexDocument" /\ lastOp.again
  /\ Cardinality(ChunkIdsOf(document_chunks, lastOp.ret)) = 2

\* C2: when deleteDocument(id) returns true the store holds no document row
\* of id, no chunk row of it and no CONTAINS relationship from it; a second
\* deleteDocument(id) at once after it returns false (unless the database
\* itself fails) and changes nothing in the store.
DeleteRemovesAll ==
  [][lastOp'.op = "deleteDocument" =>
       /\ lastOp'.ret = "true" =>
            Snapshot(documents', document_chunks', relationships', lastOp'.arg)
              = NoSnapshot
       /\ lastOp'.again =>
            /\ lastOp'.ret \in {"false", "threw"}
            /\ UNCHANGED storeVars]_vars

\* the second of two deleteDocument(id) in a row has returned false
DeletedTwice ==
  lastOp.op = "deleteDocument" /\ lastOp.again /\ lastOp.ret = "false"

\* C4: when indexDocument throws after it has written, and no other call
\* worked on the document meanwhile, the document row, the chunk rows and the
\* CONTAINS relationships of the document are what they were when the call
\* was made.
FailedIndexLeavesNothing ==
  (lastOp.op = "indexDocument" /\ lastOp.ret = "threw" /\ lastOp.wrote
     /\ lastOp.solo)
    => Snapshot(documents, document_chunks, relationships,
                DocumentId(lastOp.arg)) = lastOp.pre

\* C6: no chunk row and no CONTAINS relationship refers to a document id that
\* has no document row.
NoOrphans ==
  /\ \A r \in document_chunks : HasDocument(documents, r.documentId)
  /\ \A r \in relationships :
       (r.sourceType = "DOCUMENT" /\ r.type = "CONTAINS")
         => HasDocument(documents, r.sourceId)

InitVector == InitWith(TRUE)
\* the file indexed with a vector service
Embedded == {"a"}

\* the same with a vector service, every call with generateEmbeddings
NextVector ==
  \/ \E p \in Embedded, found \in Found : CallIndexDocument(p, TRUE, found)
  \/ \E t \in TaskIds, f \in FileStates : ProcessFile(t, f)
  \/ \E t \in TaskIds, failAt \in 0..3 : SaveDocument(t, failAt)
  \/ \E t \in TaskIds, ok \in BOOLEAN, dbFail \in BOOLEAN : EmbeddingSettled(t, ok, dbFail)
  \/ \E t \in TaskIds, ok \in BOOLEAN, dbFail \in BOOLEAN : UpsertSettled(t, ok, dbFail)
  \/ \E t \in TaskIds, r \in Responses, dbFail \in BOOLEAN : ConceptsSettled(t, r, dbFail)
  \/ \E p \in Embedded, dbFail \in BOOLEAN : DeleteDocument(DocumentId(p), dbFail)
  \/ \E b \in pendingDeletes, ok \in BOOLEAN : VectorDeleteSettled(b, ok)

SpecVector == InitVector /\ [][NextVector]_vars

\* the vector entries of the chunks of a document
VectorsOf(vs, id) == {v \in vs : v[2] = id}

\* C5: when deleteDocument(id) has returned or thrown, either the document
\* row, its chunk rows, its CONTAINS relationships and the vector entries of
\* its chunks are all gone, or the rows are all what they were before the
\* call and no deletion of a vector entry it has is under way.
DeleteIsAtomicAcrossStores ==
  lastOp.op = "deleteDocument" =>
    LET id == lastOp.arg
        now == Snapshot(documents, document_chunks, relationships, id)
    IN  \/ now = NoSnapshot /\ VectorsOf(vectors, id) = {}
        \/ /\ now = lastOp.pre
           /\ \A b \in pendingDeletes : VectorsOf(b \cap vectors, id) = {}

(***************************************************************************)
(* Directory runs: files that index or fail, callbacks that may throw.     *)
(***************************************************************************)
Listings == {<<>>, <<"a">>, <<"a", "b">>, <<"a", "b", "c">>}
Roots == {"ok", "missing", "unreadable"}
DirFiles == {TextFile(TextShort), NoFile("corrupt")}
DirResponses == {Answer("error", <<>>)}

NextDir ==
  \/ \E root \in Roots, listed \in Listings, broken \in BOOLEAN, cbThrows \in BOOLEAN :
       CallIndexDirectory("d", root, listed, broken, cbThrows)
  \/ \E t \in TaskIds, f \in DirFiles : ProcessFile(t, f)
  \/ \E t \in TaskIds, failAt \in 0..2 : SaveDocument(t, failAt)
  \/ \E t \in TaskIds, r \in DirResponses : ConceptsSettled(t, r, FALSE)
  \/ \E t \in TaskIds, cbThrows \in BOOLEAN : Settle(t, cbThrows)

SpecDir == Init /\ [][NextDir]_vars

\* C3: when an indexDirectory run ends that no other run overlapped and in
\* which neither the listing nor a progress callback threw, however many of
\* its files failed inside indexDocument: it returns, the status is
\* 'completed', total is the number of selected files, failed the number of
\* files whose indexDocument threw, processed the number of the others, every
\* selected file has been counted once, and every file that did not fail has
\* its document row.
FileFailuresDoNotAbort ==
  (lastOp.op = "indexDirectory" /\ lastOp.counts.alone /\ lastOp.why = "") =>
    LET c == lastOp.counts
    IN  /\ lastOp.ret = "returned"
        /\ indexingProgress.status = "completed"
        /\ indexingProgress.total = Cardinality(c.files)
        /\ indexingProgress.failed = Cardinality(c.bad)
        /\ indexingProgress.processed = Cardinality(c.files) - Cardinality(c.bad)
        /\ c.ok \cup c.bad = c.files
        /\ c.ok \cap c.bad = {}
        /\ \A p \in c.ok : HasDocument(documents, DocumentId(p))

\* a run over three files, in two batches, has ended with one file failed
RunEndedWithOneFailure ==
  /\ lastOp.op = "indexDirectory" /\ lastOp.counts.alone /\ lastOp.why = ""
  /\ Cardinality(lastOp.counts.files) = 3
  /\ Cardinality(lastOp.counts.bad) = 1
  /\ Cardinality(lastOp.counts.ok) = 2

\* C7: indexDirectory throws only when its root directory is missing or
\* unreadable, and when it returns the status of its snapshot is 'completed'
\* or 'error'.
ThrowsOnlyForRoot ==
  lastOp.op = "indexDirectory" =>
    /\ lastOp.ret = "threw" => lastOp.why \in {"rootMissing", "rootUnreadable"}
    /\ lastOp.ret = "returned" =>
         indexingProgress.status \in {"completed", "error"}

Statuses == {"idle", "indexing", "completed", "error", "paused"}

\* the changes of status along a trail
Changes(trail) ==
  {<<trail[i], trail[i + 1]>> : i \in 1..(Len(trail) - 1)}
    \ {<<x, x>> : x \in Statuses}

\* the trail of a step accounts for what the step does to the status
TrailRecorded ==
  IF lastOp'.trail = <<>>
  THEN indexingProgress'.status = indexingProgress.status
  ELSE /\ Head(lastOp'.trail) = indexingProgress.status
       /\ lastOp'.trail[Len(lastOp'.trail)] = indexingProgress'.status

MachineOfOneRun ==
  {<<"idle", "indexing">>, <<"indexing", "completed">>, <<"indexing", "error">>}

\* a later call starts over from 'completed' or 'error'; a run that ends
\* while the status is that of another run's end overwrites it
MachineOfManyRuns ==
  MachineOfOneRun \cup
    {<<"completed", "indexing">>, <<"error", "indexing">>,
     <<"completed", "error">>, <<"error", "completed">>}

\* C8 (as the code has it): the status changes only idle -> indexing,
\* indexing -> completed, indexing -> error, and, with more than one
\* indexDirectory call, completed -> indexing, error -> indexing,
\* completed -> error and error -> completed; it never returns to 'idle'
\* and is never 'paused'.
StatusChangesOfManyRuns ==
  [][/\ TrailRecorded
     /\ Changes(lastOp'.trail) \subseteq MachineOfManyRuns
     /\ indexingProgress'.status # "paused"]_vars

\* C8 (as claimed): the status changes only idle -> indexing,
\* indexing -> completed and indexing -> error, and is never 'paused'.
StatusChangesOfOneRun ==
  [][/\ TrailRecorded
     /\ Changes(lastOp'.trail) \subseteq MachineOfOneRun
     /\ indexingProgress'.status # "paused"]_vars

\* a second indexDirectory call has started over from 'completed'
StartedOverFromCompleted ==
  /\ lastOp.trail = <<"completed", "indexing">>
  /\ indexingProgress.status = "indexing"

(***************************************************************************)
(* Watchers and the indexing their events start.                           *)
(***************************************************************************)
NextWatch ==
  \/ \E dir \in Dirs, found \in Found, watchThrows \in BOOLEAN :
       WatchDirectory(dir, {}, found, watchThrows)
  \/ \E dir \in Dirs : StopWatching(dir)
  \/ StopAllWatching
  \/ \E h \in 1..MaxHandles, filename \in Paths \cup {""}, found \in Found :
       WatchEvent(h, filename, found, "")
  \/ \E t \in TaskIds, f \in DirFiles : ProcessFile(t, f)
  \/ \E t \in TaskIds, failAt \in 0..2 : SaveDocument(t, failAt)
  \/ \E t \in TaskIds, r \in DirResponses : ConceptsSettled(t, r, FALSE)

SpecWatch == Init /\ [][NextWatch]_vars

\* the three calls on the registry alone
NextRegistry ==
  \/ \E dir \in Dirs, found \in Found, watchThrows \in BOOLEAN :
       WatchDirectory(dir, {}, found, watchThrows)
  \/ \E dir \in Dirs : StopWatching(dir)
  \/ StopAllWatching

SpecRegistry == Init /\ [][NextRegistry]_vars

Registered == {watchers[d] : d \in Dirs} \ {0}

\* the registry holds for a directory a handle made for that directory, the
\* handles in the registry are the open ones, and no directory has two open
\* handles
RegistryIsSound ==
  /\ \A d \in Dirs :
       watchers[d] # 0 =>
         (watchers[d] \in HandleIds /\ handles[watchers[d]].dir = d)
  /\ \A h \in HandleIds : handles[h].open <=> h \in Registered
  /\ \A d \in Dirs :
       Cardinality({h \in HandleIds : handles[h].open /\ handles[h].dir = d}) <= 1

\* C9: after any calls of watchDirectory, stopWatching and stopAllWatching,
\* the registry holds at most one handle per directory, every handle in the
\* registry is open, and every handle ever created that is not in the
\* registry is closed; the registry is empty when stopAllWatching has
\* returned; stopWatching(p) closes and removes the handle of p and nothing
\* else.
RegistryHoldsTheOpenHandles ==
  /\ [](RegistryIsSound /\ (lastOp.op = "stopAllWatching" => Registered = {}))
  /\ [][lastOp'.op = "stopWatching" =>
          /\ watchers' = [watchers EXCEPT ![lastOp'.arg] = 0]
          /\ handles' = IF watchers[lastOp'.arg] # 0
                        THEN [handles EXCEPT ![watchers[lastOp'.arg]].open = FALSE]
                        ELSE handles]_vars

\* a directory was watched again, and stopWatching of the other directory
\* has left its second handle open in the registry
WatchedAgainAndStoppedOther ==
  /\ lastOp.op = "stopWatching" /\ lastOp.arg = "e"
  /\ Len(handles) = 3
  /\ watchers["d"] # 0 /\ watchers["e"] = 0
  /\ Cardinality({h \in HandleIds : ~handles[h].open}) = 2

\* C10: two indexDocument calls started by watch events for the same file are
\* never under way together: the second starts when the first has finished.
WatchEventsAreSerialized ==
  \A t, u \in TaskIds :
    (t # u /\ tasks[t].origin = "watch" /\ tasks[u].origin = "watch"
       /\ Active(t) /\ Active(u))
      => tasks[t].path # tasks[u].path

(***************************************************************************)
(* Watchers whose awaited reads, statements and requests all settle.       *)
(***************************************************************************)
\* the step of call t that the settling of its pending await runs
TaskStep(t) ==
  \/ \E f \in DirFiles : ProcessFile(t, f)
  \/ \E failAt \in 0..2 : SaveDocument(t, failAt)
  \/ \E r \in DirResponses : ConceptsSettled(t, r, FALSE)

\* every await of indexDocument is on a promise of the file system, the
\* database or the collaborator, each of which resolves or rejects
SpecWatchFair ==
  Init /\ [][NextWatch]_vars /\ \A t \in TaskIds : WF_vars(TaskStep(t))

\* the call of task t was started by an event of a watcher that is closed now
OfClosedWatcher(t) ==
  /\ tasks[t].origin = "watch" /\ Active(t)
  /\ tasks[t].run \in HandleIds /\ ~handles[tasks[t].run].open

StopsLeaveCallsAlone ==
  [][lastOp'.op \in {"stopWatching", "stopAllWatching"}
       => UNCHANGED <<tasks, storeVars, lastIndexed>>]_vars

CallsOfClosedWatchersEnd ==
  \A t \in TaskIds : OfClosedWatcher(t) ~> tasks[t].pc = "over"

\* C11: stopWatching and stopAllWatching only close watchers: the step leaves
\* every indexDocument call in flight and every row of the store as they
\* are, and a call started by an event of a watcher closed since goes on to
\* its end, with the writes it makes on the way.
StoppingDoesNotAbort == StopsLeaveCallsAlone /\ CallsOfClosedWatchersEnd

\* a call started by an event of a watcher closed while the call was in
\* flight has returned its documentId, its rows written
ReturnedAfterStop ==
  /\ lastOp.op = "indexDocument" /\ lastOp.origin = "watch"
  /\ lastOp.ret = DocumentId(lastOp.arg) /\ lastOp.wrote
  /\ lastOp.run \in HandleIds /\ ~handles[lastOp.run].open
  /\ HasDocument(documents, DocumentId(lastOp.arg))
  /\ ChunkRows(document_chunks, DocumentId(lastOp.arg)) # {}

(***************************************************************************)
(* Directory runs over one file whose text extractConcepts sends in        *)
(* slices, the collaborator answering each slice in any way.               *)
(***************************************************************************)
TextSliced == << <<"aa", "bb">>, <<"cc", "dd">>, <<"ee", "ff">> >>
GraphLists == {<<cAda, cBo>>, <<cBo, cAda>>}
GraphResponses ==
  {Answer(k, <<>>) : k \in {"error", "badjson", "notarray"}}
    \cup {Answer("array", cs) : cs \in GraphLists}

NextGraph ==
  \/ CallIndexDirectory("d", "ok", <<"a">>, FALSE, FALSE)
  \/ \E t \in TaskIds, f \in {TextFile(TextSliced)} : ProcessFile(t, f)
  \/ \E t \in TaskIds, failAt \in 0..(Len(TextSliced) + 1) : SaveDocument(t, failAt)
  \/ \E t \in TaskIds, r \in GraphResponses, dbFail \in BOOLEAN :
       ConceptsSettled(t, r, dbFail)
  \/ \E t \in TaskIds : Settle(t, FALSE)

SpecGraph == Init /\ [][NextGraph]_vars

\* the slices of the call of task t that have yet to be sent
SlicesLeft(t) == Len(ConceptSlices(tasks[t].content)) - tasks[t].slice

\* C12: a response to one slice that does not parse as JSON discards that
\* slice only: a call with slices yet to send goes on to send them, it does
\* not leave the concept extraction on the parse failure.
ParseFailureSkipsOneSlice ==
  [][\A t \in TaskIds :
       (tasks[t].pc = "concepts" /\ SlicesLeft(t) > 0 /\ tasks'[t].pc # "concepts")
         => lastOp'.why # "badjson"]_vars

\* the call of task t leaves the concept extraction: by returning its
\* documentId, the rows of its document as they were and still there
LeavesExtractionDone(t) ==
  LET id == DocumentId(tasks[t].path)
  IN  /\ tasks'[t].pc = "done"
      /\ lastOp'.op = "indexDocument" /\ lastOp'.ret = id
      /\ documents' = documents /\ document_chunks' = document_chunks
      /\ documents_fts' = documents_fts
      /\ HasDocument(documents', id)
      /\ ChunkRows(document_chunks', id) # {}

\* the directory run takes the resolved call of task t as a processed file
CountedProcessed ==
  /\ indexingProgress'.processed = indexingProgress.processed + 1
  /\ indexingProgress'.failed = indexingProgress.failed

\* C13: whatever the concept extraction does (the collaborator throws, its
\* response does not parse, a statement of the transaction fails) the indexing
\* stands: while the extraction goes on, and when it ends, the document row,
\* the chunk rows and the full-text entry are left as saved, indexDocument
\* returns the documentId, and the directory run that made the call counts
\* the file as processed, not as failed.
ConceptFailureIsSwallowed ==
  [][\A t \in TaskIds :
       /\ tasks[t].pc = "concepts" =>
             \/ tasks'[t].pc = "concepts" /\ tasks'[t].slice = tasks[t].slice
             \/ /\ tasks'[t].pc = "concepts" /\ tasks'[t].slice = tasks[t].slice + 1
                /\ UNCHANGED <<documents, document_chunks, documents_fts>>
             \/ LeavesExtractionDone(t)
       /\ (tasks[t].pc = "done" /\ tasks'[t].pc # "done") => CountedProcessed]_vars

\* a call made by a directory run has returned its documentId after its
\* concept extraction has failed, its rows in the store
ReturnedAfterFailedExtraction ==
  /\ lastOp.op = "indexDocument" /\ lastOp.origin = "dir"
  /\ lastOp.why \in {"error", "badjson", "write"}
  /\ lastOp.ret = DocumentId(lastOp.arg)
  /\ HasDocument(documents, DocumentId(lastOp.arg))
  /\ ChunkRows(document_chunks, DocumentId(lastOp.arg)) # {}
  /\ \E t \in TaskIds : tasks[t].pc = "done" /\ tasks[t].path = lastOp.arg

(***************************************************************************)
(* The embedding block of the chunk loop.                                  *)
(***************************************************************************)
\* the chunk the loop of the call of task t is at
ChunkAt(t) == TaskChunks(t)[tasks[t].idx]

\* the loop of the call of task t has saved the chunk it was at, its text
\* the last appended to the full-text entry of the document, and has gone on
\* to the next chunk, to extractConcepts after the last
SavedAndWentOn(t) ==
  /\ ChunkAt(t) \in document_chunks'
  /\ \E x \in documents_fts' :
        /\ x.doc = ChunkAt(t).documentId
        /\ x.content # <<>>
        /\ x.content[Len(x.content)] = ChunkAt(t).content
  /\ tasks'[t].idx = tasks[t].idx + 1
  /\ tasks'[t].pc = IF tasks[t].idx < Len(TaskChunks(t)) THEN "embed" ELSE "concepts"

DefaultLimit == 10

\* the places of word q in the chunk texts c of a full-text entry
Hits(c, q) ==
  UNION {UNION {{<<i, j, k>> : k \in {n \in 1..Len(c[i][j]) : c[i][j][n] = q}}
                : j \in 1..Len(c[i])}
         : i \in 1..Len(c)}

\* the words of a text (a sequence of paragraphs or of chunk tokens)
WordsOf(text) == UNION {{text[i][j] : j \in 1..Len(text[i])} : i \in 1..Len(text)}

RECURSIVE Ranked(_, _)
\* ORDER BY rank: the entries with more occurrences of the word first; the
\* order among entries that rank alike is some fixed order
Ranked(rows, q) ==
  IF rows = {} THEN <<>>
  ELSE LET best == CHOOSE x \in rows :
                     \A y \in rows :
                       Cardinality(Hits(x.content, q)) >= Cardinality(Hits(y.content, q))
       IN  <<best.doc>> \o Ranked(rows \ {best}, q)

\* fullTextSearch(query, {limit, offset}) for a one-word query: the
\* documentIds of the results in order
FullTextSearch(fts, docs, q, limit, offset) ==
  LET rows == {x \in fts : HasDocument(docs, x.doc) /\ Hits(x.content, q) # {}}
      all == Ranked(rows, q)
      upto == IF offset + limit < Len(all) THEN offset + limit ELSE Len(all)
  IN  SubSeq(all, offset + 1, upto)

\* searchDocuments(query, {useSemanticSearch: false})
SearchDocuments(q) == FullTextSearch(documents_fts, documents, q, DefaultLimit, 0)

\* the words a query is made of: those of the files, and one of no file
Queries == WordsOf(TextLong) \cup {"zz"}

\* no chunk row of another document has the word
UniqueTo(q, id) ==
  \A r \in document_chunks : r.documentId # id => q \notin WordsOf(r.content)

GraphOptions ==
  [documentId : {"", DocumentId("a")}, conceptId : {"", ConceptId("Ada")},
   minWeight : {1, 2, 3}, maxNodes : {1, 3, 100}]

GraphQueryThrows(o) == o.documentId # "" \/ o.conceptId # ""

\* WHERE r.weight >= ? ORDER BY r.weight DESC LIMIT ?: the rows in every order
\* the statement can return them in
GraphRows(rels, o) ==
  LET sel == {r \in rels : r.weight >= o.minWeight}
      n == Cardinality(sel)
      m == IF o.maxNodes < n THEN o.maxNodes ELSE n
      sorted == {f \in [1..n -> sel] :
                   /\ \A i, j \in 1..n : i # j => f[i] # f[j]
                   /\ \A i, j \in 1..n : i < j => f[i].weight >= f[j].weight}
  IN  {SubSeq(f, 1, m) : f \in sorted}

\* the type of the node of an end of a row: of a document, or of the concept
\* the LEFT JOIN has found for it
NodeType(cons, id, endType) ==
  IF endType = "DOCUMENT" THEN "document"
  ELSE IF \E c \in cons : c.id = id /\ c.type = "PERSON" THEN "person"
  ELSE IF \E c \in cons : c.id = id /\ c.type = "TOPIC" THEN "topic"
  ELSE "concept"

\* a loop that pushes the node of every end of every row
AddNodeAlways(nodes, id, type) == Append(nodes, [id |-> id, type |-> type, weight |-> 1])

\* if (!nodeMap.has(id)) { nodeMap.set(id, node); nodes.push(node) }
AddNode(nodes, id, type) ==
  IF \E i \in 1..Len(nodes) : nodes[i].id = id THEN nodes
  ELSE Append(nodes, [id |-> id, type |-> type, weight |-> 1])

RECURSIVE BuildGraph(_, _, _)
\* the loop over the rows: the source node, the target node, the edge
BuildGraph(g, rows, cons) ==
  IF rows = <<>> THEN g
  ELSE LET rel == Head(rows)
           n1 == AddNode(g.nodes, rel.sourceId,
                         NodeType(cons, rel.sourceId, rel.sourceType))
           n2 == AddNode(n1, rel.targetId,
                         NodeType(cons, rel.targetId, rel.targetType))
       IN  BuildGraph([nodes |-> n2,
                       edges |-> Append(g.edges,
                                   [source |-> rel.sourceId, target |-> rel.targetId,
                                    label |-> rel.type, weight |-> rel.weight])],
                      Tail(rows), cons)

\* getKnowledgeGraph(o): the graphs it can return; none when it throws
GetKnowledgeGraph(o) ==
  IF GraphQueryThrows(o) THEN {}
  ELSE {BuildGraph([nodes |-> <<>>, edges |-> <<>>], rows, concepts)
        : rows \in GraphRows(relationships, o)}

GraphWellFormed(g) ==
  /\ \A i, j \in 1..Len(g.nodes) : i # j => g.nodes[i].id # g.nodes[j].id
  /\ \A e \in 1..Len(g.edges) :
       /\ \E i \in 1..Len(g.nodes) : g.nodes[i].id = g.edges[e].source
       /\ \E i \in 1..Len(g.nodes) : g.nodes[i].id = g.edges[e].target

ChunkParagraphs == {<<"c">>, <<"aa", "b">>, <<"bbbbb", "bbbbb">>}
ChunkTexts ==
  {<<>>} \cup {<<p>> : p \in ChunkParagraphs}
    \cup {<<p, q>> : p, q \in ChunkParagraphs}
    \cup {<<p, q, r>> : p, q, r \in ChunkParagraphs}
\* this.chunkSize and this.chunkOverlap as the constructor may set them
\* (options.chunkOverlap || this.chunkOverlap: never 0)
ChunkSizes == 1..(ChunkSize + 4)
ChunkOverlaps == 1..ChunkOverlap

NextChunk ==
  \/ /\ \A t \in TaskIds : ~Active(t)
     /\ CallIndexDocument("a", FALSE, "file")
  \/ \E t \in TaskIds, text \in ChunkTexts : ProcessFile(t, TextFile(text))
  \/ \E t \in TaskIds : SaveDocument(t, Len(TaskChunks(t)) + 1)
  \/ \E t \in TaskIds, r \in DirResponses : ConceptsSettled(t, r, FALSE)

SpecChunk == Init /\ [][NextChunk]_vars

\* the calls that have read their file
Chunking == {t \in TaskIds : tasks[t].pc \in {"save", "concepts"}}

\* the chunk texts of content for chunk size S and overlap O
ChunksOf(content, S, O) == ChunkLoop(content, <<>>, <<>>, S, O)

\* C17: for every text and every chunk size S, a text of length at most S
\* is chunked into exactly one chunk, a longer text into at least two.
ChunkCountBySize ==
  \A t \in Chunking : \A S \in ChunkSizes : \A O \in ChunkOverlaps :
    LET n == Len(ChunksOf(tasks[t].content, S, O))
    IN  IF TextLen(tasks[t].content) <= S THEN n = 1 ELSE n >= 2

RECURSIVE Flat(_)
\* the words of a chunk text in order, those on both sides of a paragraph
\* break inside it each for itself
Flat(toks) == IF toks = <<>> THEN <<>> ELSE Head(toks) \o Flat(Tail(toks))

\* chunk text cur begins with the last O words of chunk text prev (all of
\* them when prev has fewer) and then a paragraph of the content
BeginsWithOverlap(cur, prev, O, content) ==
  LET k == IF Len(Flat(prev)) < O THEN Len(Flat(prev)) ELSE O
      lead == SubSeq(Flat(prev), Len(Flat(prev)) - k + 1, Len(Flat(prev)))
  IN  \E i \in 1..Len(content) :
        /\ Len(Flat(cur)) >= k + Len(content[i])
        /\ SubSeq(Flat(cur), 1, k) = lead
        /\ SubSeq(Flat(cur), k + 1, k + Len(content[i])) = content[i]

\* C18: in every chunk sequence produced with overlap O, each chunk after
\* the first begins with exactly the last O words of the chunk before it
\* (all of its words when it has fewer than O), followed by the paragraph
\* that made the chunk before it overflow.
OverlapIsLastWords ==
  \A t \in Chunking : \A S \in ChunkSizes : \A O \in ChunkOverlaps :
    LET cs == ChunksOf(tasks[t].content, S, O)
    IN  \A i \in 2..Len(cs) : BeginsWithOverlap(cs[i], cs[i - 1], O, tasks[t].content)

(***************************************************************************)
(* semanticSearch without a vector service: the in-memory fallback.        *)
(***************************************************************************)
\* the keys of the metadata column of a chunk row: JSON.stringify of the
\* chunk.metadata that chunkDocument builds; chunk.embedding is a property
\* of the chunk object, which saveDocumentChunk writes to no column
MetadataOf(r) == {"title", "type"}

\* FROM document_chunks dc JOIN documents d WHERE dc.metadata LIKE
\* '%"embedding":%'
SemanticCandidates(chs, docs) ==
  {r \in chs : HasDocument(docs, r.documentId) /\ "embedding" \in MetadataOf(r)}

\* the fallback of semanticSearch(query, {limit, offset}): the documentIds
\* of the results, the candidates in the order of the sort
SemanticSearch(chs, docs, limit, offset) ==
  LET cand == SemanticCandidates(chs, docs)
      n == Cardinality(cand)
      all == CHOOSE f \in [1..n -> cand] : \A i, j \in 1..n : i # j => f[i] # f[j]
      m == IF n - offset < limit THEN n - offset ELSE limit
  IN  [i \in 1..(IF m > 0 THEN m ELSE 0) |-> all[offset + i].documentId]

\* C19: with no vector service, when a chunk has been saved whose embedding
\* indexDocument has generated, a semantic search whose limit is at least
\* the number of chunk rows returns a result for the chunk's document.
EmbeddedChunksAreFound ==
  (~vectorStore /\ lastOp.why = "embedded") =>
    \E i \in 1..Len(SemanticSearch(document_chunks, documents,
                                    Cardinality(document_chunks), 0)) :
      SemanticSearch(document_chunks, documents,
                     Cardinality(document_chunks), 0)[i] = DocumentId(lastOp.arg)

(***************************************************************************)
(* RELATED edges over the extraction passes.                               *)
(***************************************************************************)
\* the RELATED rows between concepts a and b, in either direction
RelatedBetween(rels, a, b) ==
  {r \in rels : r.type = "RELATED" /\ {r.sourceId, r.targetId} = {a, b}}

\* C20: for two distinct concepts, whatever the passes and whatever the
\* order the passes list them in, the store has at most one RELATED edge
\* for the pair, of weight 1.0 or more (2 halves) in steps of 0.5.
OneRelatedEdgePerPair ==
  \A a, b \in {c.id : c \in concepts} :
    a # b =>
      /\ Cardinality(RelatedBetween(relationships, a, b)) <= 1
      /\ \A r \in RelatedBetween(relationships, a, b) : r.weight >= 2

(***************************************************************************)
(* Extraction passes of calls on two documents, re-indexed and deleted,    *)
(* the collaborator naming a concept twice in an answer or leaving out the *)
(* type of one.                                                            *)
(***************************************************************************)
cCy == [name |-> "Cy", type |-> ""]
PassLists == {<<cAda, cBo>>, <<cAda, cAda>>, <<cAda, cCy>>}
PassResponses ==
  {Answer(k, <<>>) : k \in {"error", "notarray"}}
    \cup {Answer("array", cs) : cs \in PassLists}

NextPasses ==
  \/ \E p \in Direct : CallIndexDocument(p, FALSE, "file")
  \/ \E t \in TaskIds, f \in {TextFile(TextSliced)} : ProcessFile(t, f)
  \/ \E t \in TaskIds : SaveDocument(t, Len(TaskChunks(t)) + 1)
  \/ \E t \in TaskIds, r \in PassResponses, dbFail \in BOOLEAN :
       ConceptsSettled(t, r, dbFail)
  \/ \E p \in Direct : DeleteDocument(DocumentId(p), FALSE)

SpecPasses == Init /\ [][NextPasses]_vars

\* the entries of a pass that the first loop takes up for the concept id
Observed(pass, id) ==
  {i \in 1..Len(pass) :
     pass[i].name # "" /\ pass[i].type # "" /\ ConceptId(pass[i].name) = id}

\* SELECT frequency FROM concepts WHERE id = ?, 0 for no row
FrequencyOf(cons, id) ==
  IF \E c \in cons : c.id = id
  THEN (CHOOSE c \in cons : c.id = id).frequency ELSE 0

ConceptIds == {ConceptId(n) : n \in {"Ada", "Bo", "Cy"}}

\* C21: when an extraction pass has committed, the frequency of every concept
\* is what it was plus the number of entries of the pass that name it (so 1
\* when first observed), no concept has two rows, and the store holds one
\* CONTAINS edge from the document of the pass to every concept the pass
\* names, its weight the frequency the concept has now.
FrequencyCountsObservations ==
  [][lastOp'.pass # <<>> =>
       \A id \in ConceptIds :
         /\ FrequencyOf(concepts', id)
              = FrequencyOf(concepts, id) + Cardinality(Observed(lastOp'.pass, id))
         /\ Cardinality({c \in concepts' : c.id = id}) <= 1
         /\ Observed(lastOp'.pass, id) # {} =>
              LET edges == {r \in relationships' :
                              /\ r.type = "CONTAINS" /\ r.targetId = id
                              /\ r.sourceId = DocumentId(lastOp'.arg)}
              IN  /\ Cardinality(edges) = 1
                  /\ \A r \in edges : r.weight = 2 * FrequencyOf(concepts', id)]_vars

\* a pass that names a concept twice has committed after an earlier pass of
\* another document had observed the concept: the concept's frequency is past
\* 2, the edge of the other document still has the weight of its own pass
ObservedTwiceInOnePass ==
  /\ lastOp.pass = <<cAda, cAda>>
  /\ FrequencyOf(concepts, ConceptId("Ada")) >= 3
  /\ \E r \in relationships :
        /\ r.type = "CONTAINS" /\ r.targetId = ConceptId("Ada")
        /\ r.sourceId # DocumentId(lastOp.arg)
        /\ r.weight < 2 * FrequencyOf(concepts, ConceptId("Ada"))

\* a frequency or a weight of a row that stays in the store has changed
ValueChanged ==
  \/ \E c \in concepts : \E d \in concepts' : d.id = c.id /\ d.frequency # c.frequency
  \/ \E r \in relationships : \E q \in relationships' : q.id = r.id /\ q.weight # r.weight

\* C22: along every sequence of indexDocument, re-indexing and deleteDocument
\* no concept row goes and no frequency decreases, the weight of a
\* relationship that stays does not decrease, no weight is negative, and a
\* step in which a frequency or a weight changes is an extraction pass that
\* commits.
ValuesOnlyGrow ==
  [][/\ \A c \in concepts : FrequencyOf(concepts', c.id) >= c.frequency
     /\ \A r \in relationships :
          \A q \in relationships' : q.id = r.id => q.weight >= r.weight
     /\ \A q \in relationships' : q.weight >= 0
     /\ ValueChanged => lastOp'.pass # <<>>]_vars

\* deleteDocument has removed the CONTAINS edges of a document whose passes
\* had raised a frequency and the weight of a RELATED edge more than once
DeletedAfterGrowth ==
  /\ lastOp.op = "deleteDocument" /\ lastOp.ret = "true"
  /\ lastOp.pre.contains # {}
  /\ ContainsRows(relationships, lastOp.arg) = {}
  /\ \E c \in concepts : c.frequency >= 3
  /\ \E r \in relationships : r.type = "RELATED" /\ r.weight >= 3

(***************************************************************************)
(* The batches of a directory run.                                         *)
(***************************************************************************)
\* the calls of indexDocument of run r that have neither resolved nor rejected
Indexing(r) ==
  {t \in TaskIds : tasks[t].origin = "dir" /\ tasks[t].run = r /\ Active(t)}

\* the files of batch k (from 0) of a list, MaxConcurrentProcessing to a batch
FilesOfBatch(listed, k) ==
  {listed[i] : i \in {j \in 1..Len(listed) :
                        /\ j > k * MaxConcurrentProcessing
                        /\ j <= (k + 1) * MaxConcurrentProcessing}}

\* C23: while an indexDirectory run is under way, at most
\* maxConcurrentProcessing of its files are being indexed, and the files
\* being indexed are all of one batch: none of a later batch has started
\* while one of an earlier batch has not finished.
BatchesDoNotOverlap ==
  \A r \in RunIds :
    runs[r].pc = "running" =>
      /\ Cardinality(Indexing(r)) <= MaxConcurrentProcessing
      /\ \E k \in 0..Len(runs[r].listed) :
           {tasks[t].path : t \in Indexing(r)} \subseteq FilesOfBatch(runs[r].listed, k)

\* the file of the second batch is being indexed, the two files of the first
\* batch counted, one of them failed
SecondBatchUnderWay ==
  \E r \in RunIds :
    /\ runs[r].pc = "running" /\ Len(runs[r].listed) = 3
    /\ runs[r].ok \cup runs[r].bad = {"a", "b"} /\ runs[r].bad # {}
    /\ \E t \in Indexing(r) : tasks[t].path = "c" /\ tasks[t].pc = "concepts"

(***************************************************************************)
(* Transactions and the calls that are awaited.                            *)
(***************************************************************************)
\* a call is suspended on generateEmbedding, on index.upsert or on
\* sendChatMessage, or a deleteMany request is in flight
AwaitingCollaborator ==
  \/ \E t \in TaskIds : tasks[t].pc \in {"embed", "upsert", "concepts"}
  \/ pendingDeletes # {}

\* C24: in every state in which a call is suspended on an embedding, a
\* text-completion or a vector-service request, no transaction is open on the
\* connection: every BEGIN has had its COMMIT or ROLLBACK.
NoTransactionAcrossAwait == AwaitingCollaborator => ~inTransaction

\* deleteDocument has ended its transaction with a deleteMany request in
\* flight, a call waiting for its upsert, and a pass committed before
DeletedWhileAwaiting ==
  /\ lastOp.op = "deleteDocument" /\ lastOp.ret = "true"
  /\ pendingDeletes # {}
  /\ \E t \in TaskIds : tasks[t].pc = "upsert"
  /\ concepts # {}
  /\ ~inTransaction

(***************************************************************************)
(* A directory run over one batch of two files whose passes name the same  *)
(* concepts.                                                               *)
(***************************************************************************)
NextBatch ==
  \/ CallIndexDirectory("d", "ok", <<"a", "b">>, FALSE, FALSE)
  \/ \E t \in TaskIds, f \in DirFiles : ProcessFile(t, f)
  \/ \E t \in TaskIds, failAt \in 0..2 : SaveDocument(t, failAt)
  \/ \E t \in TaskIds, r \in Responses, dbFail \in BOOLEAN : ConceptsSettled(t, r, dbFail)
  \/ \E t \in TaskIds : Settle(t, FALSE)

SpecBatch == Init /\ [][NextBatch]_vars

\* the calls whose pending await settles in the step
Stepping ==
  {t \in TaskIds :
     /\ Active(t)
     /\ \/ tasks'[t].pc # tasks[t].pc
        \/ tasks'[t].idx # tasks[t].idx
        \/ tasks'[t].slice # tasks[t].slice}

\* the rows that carry document id d
RowsOf(docs, chs, fts, rels, d) ==
  <<DocumentRows(docs, d), ChunkRows(chs, d), {x \in fts : x.doc = d},
    ContainsRows(rels, d)>>

\* the documents that have a CONTAINS edge to concept id
DocumentsNaming(rels, id) ==
  {r.sourceId : r \in {q \in rels : q.type = "CONTAINS" /\ q.targetId = id}}

\* the step writes rows that carry a document id only for the document of the
\* call that steps
WritesOwnDocumentRows ==
  /\ Cardinality(Stepping) <= 1
  /\ \A d \in DocIds :
       RowsOf(documents', document_chunks', documents_fts', relationships', d)
         # RowsOf(documents, document_chunks, documents_fts, relationships, d)
       => \E t \in Stepping : DocumentId(tasks[t].path) = d

\* the step writes concept rows and RELATED edges only as one transaction of
\* a call's extraction pass
WritesGraphInOneTransaction ==
  (concepts' # concepts
     \/ {r \in relationships' : r.type = "RELATED"}
          # {r \in relationships : r.type = "RELATED"})
  => /\ \E t \in Stepping : tasks[t].pc = "concepts"
     /\ ~inTransaction /\ ~inTransaction'

\* C25 (as the code has it): the document row, the chunk rows, the full-text
\* entry and the CONTAINS edges written while a file is indexed carry that
\* file's own document id; concept rows and RELATED edges are shared between
\* files, and are written only inside the transaction of one extraction
\* pass, which begins and ends in one step.
FilesShareOnlyTheGraph ==
  [][WritesOwnDocumentRows /\ WritesGraphInOneTransaction]_vars

\* C25 (as claimed): every row written while a file is indexed is of that
\* file alone: also no concept row is written for more than one document.
EveryRowIsOfOneFile ==
  [][/\ WritesOwnDocumentRows
     /\ \A c \in concepts' :
          c \notin concepts => Cardinality(DocumentsNaming(relationships', c.id)) <= 1]_vars

\* the two files of a batch, neither counted yet, have both raised the
\* frequency of one concept row
BatchSharesConcept ==
  \E r \in RunIds : \E t, u \in TaskIds :
    /\ runs[r].pc = "running" /\ runs[r].ok = {} /\ runs[r].bad = {}
    /\ tasks[t].run = r /\ tasks[u].run = r
    /\ tasks[t].path = "a" /\ tasks[u].path = "b"
    /\ tasks[t].pc = "done" /\ tasks[u].pc = "done"
    /\ FrequencyOf(concepts, ConceptId("Ada")) = 2
    /\ DocumentsNaming(relationships, ConceptId("Ada")) = {DocumentId("a"), DocumentId("b")}

(***************************************************************************)
(* The chunk rows and the full-text entry of a document that is indexed    *)
(* again after its file has changed.                                       *)
(***************************************************************************)
\* getDocumentContent(id): SELECT content FROM document_chunks WHERE
\* document_id = ? ORDER BY index_num, the texts in order (joined by "\n\n")
GetDocumentContent(chs, id) ==
  LET rows == ChunkRows(chs, id)
  IN  [i \in 1..Cardinality(rows) |->
         (CHOOSE r \in rows :
            Cardinality({q \in rows : q.index < r.index}) = i - 1).content]

\* the chunk texts of content, in order
ChunkTextsOf(content, id) ==
  [i \in 1..Len(ChunkDocument(content, id)) |-> ChunkDocument(content, id)[i].content]

\* C26: when indexDocument has returned for a path (no other call having
\* worked on the document meanwhile), the chunk rows of the document are
\* exactly the chunks of the content just indexed, and getDocumentContent
\* returns their texts and nothing of an earlier version.
ChunkRowsAreOfLatestContent ==
  (lastOp.op = "indexDocument" /\ lastOp.solo /\ lastOp.ret = DocumentId(lastOp.arg)) =>
    LET id == lastOp.ret
        content == lastIndexed[lastOp.arg].content
    IN  /\ ChunkRows(document_chunks, id) = Range(ChunkDocument(content, id))
        /\ GetDocumentContent(document_chunks, id) = ChunkTextsOf(content, id)

\* the full-text entries of document id
FtsEntries(fts, id) == {x \in fts : x.doc = id}

\* C27: when indexDocument has returned the id of a document that the store
\* holds, the full-text table has exactly one entry for the document and its
\* content is the texts of the chunk rows the store holds for the document,
\* in index order; when deleteDocument has returned true, it has no entry
\* for the document.
FullTextMirrorsChunkRows ==
  /\ (lastOp.op = "indexDocument" /\ lastOp.ret = DocumentId(lastOp.arg)
        /\ HasDocument(documents, lastOp.ret)) =>
       /\ Cardinality(FtsEntries(documents_fts, lastOp.ret)) = 1
       /\ \A x \in FtsEntries(documents_fts, lastOp.ret) :
            x.content = GetDocumentContent(document_chunks, lastOp.ret)
  /\ (lastOp.op = "deleteDocument" /\ lastOp.ret = "true") =>
       FtsEntries(documents_fts, lastOp.arg) = {}

(***************************************************************************)
(* processFile on files that cannot be extracted.                          *)
(***************************************************************************)
\* C28: when the extraction of a file fails (the file is missing, unreadable
\* or corrupted, or of a type no strategy reads), the call throws a
\* FileProcessingError that carries the path of the file, and neither the
\* step that throws nor the call before it has written to the store.
ExtractionFailsWithPath ==
  [][lastOp'.err # NoError =>
       /\ lastOp'.op = "indexDocument" /\ lastOp'.ret = "threw"
       /\ lastOp'.err = [class |-> "FileProcessingError", filePath |-> lastOp'.arg]
       /\ ~lastOp'.wrote
       /\ UNCHANGED storeVars]_vars

\* the extraction has failed in a call that indexes a document again: the
\* rows of the document are those the call found
FailedOnReindex ==
  /\ lastOp.err.class = "FileProcessingError" /\ lastOp.err.filePath = lastOp.arg
  /\ lastOp.solo /\ lastOp.pre.documents # {} /\ lastOp.pre.chunks # {}
  /\ Snapshot(documents, document_chunks, relationships, DocumentId(lastOp.arg))
       = lastOp.pre

(***************************************************************************)
(* The transaction of one slice.                                           *)
(***************************************************************************)
\* processConceptsChunk has run from the settling of sendChatMessage to its
\* end for a slice of some call
SliceProcessed ==
  \E t \in TaskIds :
    /\ tasks[t].pc = "concepts"
    /\ tasks'[t].pc # "concepts" \/ tasks'[t].slice # tasks[t].slice

\* C29: the graph writes of one slice are all or nothing: when a statement
\* of the slice's transaction has failed, the concept rows and the
\* relationship rows are what they were before the slice; when the slice has
\* committed, every entry it names has its row; and no transaction is open
\* when the processing of a slice has ended, however it ended.
SliceIsAllOrNothing ==
  [][SliceProcessed =>
       /\ ~inTransaction'
       /\ lastOp'.why = "write" => UNCHANGED <<concepts, relationships>>
       /\ lastOp'.pass # <<>> =>
            \A id \in ConceptIds :
              Observed(lastOp'.pass, id) # {} => FrequencyOf(concepts', id) > 0]_vars

\* a slice has failed inside its transaction after an earlier slice had
\* committed: the rows of the earlier slice stand, no transaction is open
SliceRolledBack ==
  /\ lastOp.why = "write" /\ lastOp.pass = <<>>
  /\ FrequencyOf(concepts, ConceptId("Ada")) > 0
  /\ \E r \in relationships : r.type = "RELATED"
  /\ ~inTransaction

(***************************************************************************)
(* Watchers with and without a type filter.                                *)
(***************************************************************************)
WatchedTypes == {"markdown"}
DetectedTypes == {"markdown", "text", "unknown"}

NextFilter ==
  \/ \E dir \in Dirs, fileTypes \in {{}, WatchedTypes} :
       WatchDirectory(dir, fileTypes, "file", FALSE)
  \/ \E h \in 1..MaxHandles, filename \in Paths \cup {""},
        found \in Found \cup {"directory"}, type \in DetectedTypes \cup {""} :
       WatchEvent(h, filename, found, type)
  \/ \E t \in TaskIds, found \in Found : DetectSettled(t, found)
  \/ \E t \in TaskIds, f \in DirFiles : ProcessFile(t, f)
  \/ \E t \in TaskIds, failAt \in 0..2 : SaveDocument(t, failAt)
  \/ \E t \in TaskIds, r \in DirResponses : ConceptsSettled(t, r, FALSE)

SpecFilter == Init /\ [][NextFilter]_vars

\* the indexDocument call of task t is one that the callback of a watcher
\* has made
StartedByWatcher(t) == tasks[t].origin = "watch" /\ Active(t)

\* the event behind the call of task t had found a regular file and, when
\* the watcher has a type filter, a type that is in the filter
EventPassedTheChecks(t) ==
  /\ tasks[t].seen = "file"
  /\ LET filter == handles[tasks[t].run].fileTypes
     IN  IF filter = {} THEN tasks[t].type = "" ELSE tasks[t].type \in filter

\* C30: a change event of a watcher leads to an indexDocument call only if,
\* when the event was handled, the path held a regular file and (when the
\* watcher has a type filter) detectFileType resolved to a type of the
\* filter; the store changes only in a step of a call that is under way, so
\* an event that fails a check changes nothing in the store.
EventsIndexOnlyCheckedFiles ==
  [][/\ \A t \in TaskIds : StartedByWatcher(t)' => EventPassedTheChecks(t)'
     /\ storeVars' # storeVars =>
          \E t \in TaskIds : StartedByWatcher(t) /\ EventPassedTheChecks(t)
                             /\ tasks'[t] # tasks[t]]_vars

\* a filtered watcher has let one event go (its file is of a type outside the
\* filter) with the store still empty of it, and another event of the same
\* watcher, on a file of a type in the filter, has started a call that has
\* written
OneEventFilteredOneIndexed ==
  \E t, u \in TaskIds :
    /\ tasks[t].pc = "over" /\ tasks[t].type = "text"
    /\ StartedByWatcher(u) /\ tasks[u].type = "markdown" /\ tasks[u].wrote
    /\ handles[tasks[u].run].fileTypes = WatchedTypes
    /\ \A d \in documents : d.id = DocumentId(tasks[u].path)

(***************************************************************************)
(* Paragraphs in the chunks.                                               *)
(***************************************************************************)
RECURSIVE JoinWith(_, _)
\* words.join(sep): the words with the separator between them
JoinWith(ws, sep) ==
  IF Len(ws) <= 1 THEN ws ELSE <<Head(ws), sep>> \o JoinWith(Tail(ws), sep)

\* the string of a paragraph: its words, single spaces between them
ParagraphString(p) == JoinWith(p, " ")

RECURSIVE ChunkString(_)
\* the string of a chunk text: its tokens, single spaces between them, the
\* words of a token with the paragraph break "\n\n" between them
ChunkString(toks) ==
  IF toks = <<>> THEN <<>>
  ELSE IF Len(toks) = 1 THEN JoinWith(Head(toks), "\n\n")
  ELSE JoinWith(Head(toks), "\n\n") \o <<" ">> \o ChunkString(Tail(toks))

\* string s has the string sub in it
Includes(s, sub) ==
  \E i \in 0..(Len(s) - Len(sub)) : SubSeq(s, i + 1, i + Len(sub)) = sub

\* the chunks of cs that have paragraph i of the content whole in them
ChunksWith(cs, content, i) ==
  {k \in 1..Len(cs) : Includes(ChunkString(cs[k]), ParagraphString(content[i]))}

\* C31: for every content, chunk size and overlap, every non-blank paragraph
\* is whole in some chunk, and a paragraph longer than the chunk size is
\* whole in a chunk that has no other paragraph of the content in it.
ParagraphsAreNeverSplit ==
  \A t \in Chunking : \A S \in ChunkSizes : \A O \in ChunkOverlaps :
    LET content == tasks[t].content
        cs == ChunksOf(content, S, O)
    IN  \A i \in 1..Len(content) :
          content[i] # <<>> =>
            /\ ChunksWith(cs, content, i) # {}
            /\ ParagraphLen(content[i]) > S =>
                 \E k \in ChunksWith(cs, content, i) :
                   \A j \in 1..Len(content) :
                     content[j] \notin {<<>>, content[i]} => k \notin ChunksWith(cs, content, j)

\* C31 as the chunker has it: every non-blank paragraph is whole in some
\* chunk, and a paragraph longer than the chunk size ends a chunk that has
\* nothing before it or, before it and a single space, only what the chunker
\* took over as overlap from the chunk before.
ParagraphsWholeAfterOverlap ==
  \A t \in Chunking : \A S \in ChunkSizes : \A O \in ChunkOverlaps :
    LET content == tasks[t].content
        cs == ChunksOf(content, S, O)
    IN  \A i \in 1..Len(content) :
          content[i] # <<>> =>
            /\ ChunksWith(cs, content, i) # {}
            /\ ParagraphLen(content[i]) > S =>
                 \E k \in 1..Len(cs) :
                   LET s == ChunkString(cs[k])
                       p == ParagraphString(content[i])
                       lead == Len(s) - Len(p)
                   IN  /\ lead >= 0 /\ SubSeq(s, lead + 1, Len(s)) = p
                       /\ \/ lead = 0
                          \/ /\ k > 1 /\ s[lead] = " "
                             /\ SubSeq(s, 1, lead - 1)
                                  = ChunkString(LastWords(cs[k - 1], O))

\* a call has read a paragraph that fits and then one longer than the chunk
\* size: the second chunk is the first paragraph, a space, and the long one
LongParagraphAfterOverlap ==
  \E t \in Chunking :
    /\ tasks[t].content = << <<"c">>, <<"bbbbb", "bbbbb">> >>
    /\ ParagraphLen(tasks[t].content[2]) > ChunkSize
    /\ LET cs == ChunksOf(tasks[t].content, ChunkSize, ChunkOverlap)
       IN  /\ Len(cs) = 2
           /\ ChunkString(cs[2]) = <<"c", " ", "bbbbb", " ", "bbbbb">>

(***************************************************************************)
(* Requests through the retry wrapper.                                     *)
(***************************************************************************)
NextRetry ==
  \/ \E q \in RequestIds : CallWithRetry(q)
  \/ \E q \in RequestIds, outcome \in Outcomes : AttemptSettled(q, outcome)
  \/ \E q \in RequestIds : BackoffElapsed(q)

SpecRetry == Init /\ [][NextRetry]_vars

\* a fn() that is awaited settles (the HTTP client resolves, rejects or
\* times out) and the timer of a backoff fires
SpecRetryFair ==
  Init /\ [][NextRetry]_vars
    /\ \A q \in RequestIds :
         /\ WF_vars(\E outcome \in Outcomes : AttemptSettled(q, outcome))
         /\ WF_vars(BackoffElapsed(q))

Finished(q) == requests[q].pc \in {"returned", "threw"}

\* how the last invocation of fn of request q settled
LastOutcome(q) == requests[q].outcomes[Len(requests[q].outcomes)]

\* C32: a request through withRetry that has ended has either returned, and
\* then the result of the first invocation of fn that resolved, with no
\* error; or thrown, and then APIKeyError when the last failure had status
\* 401, RateLimitError when it had status 429, OpenAIServiceError for every
\* other last failure, status 400 among them.
EndsInResultOrClassifiedError ==
  \A q \in RequestIds :
    Finished(q) =>
      LET os == requests[q].outcomes
          firstOk == {i \in 1..Len(os) : os[i] = "ok" /\ \A j \in 1..(i - 1) : os[j] # "ok"}
      IN  /\ os # <<>>
          /\ IF requests[q].pc = "returned"
             THEN /\ firstOk = {requests[q].result}
                  /\ requests[q].error = ""
             ELSE /\ firstOk = {} /\ requests[q].result = 0
                  /\ requests[q].error =
                       CASE LastOutcome(q) = "401" -> "APIKeyError"
                         [] LastOutcome(q) = "429" -> "RateLimitError"
                         [] OTHER -> "OpenAIServiceError"

\* one request has thrown APIKeyError after a rate limit and then a 401,
\* the other has thrown OpenAIServiceError for an invalid request
ThrewByLastFailure ==
  /\ requests[1].outcomes = <<"429", "401">> /\ requests[1].error = "APIKeyError"
  /\ requests[2].outcomes = <<"400">> /\ requests[2].error = "OpenAIServiceError"

\* C33: withRetry invokes fn at most RetryCount = 3 times for one request,
\* never again after an invocation that resolved or one that failed with
\* status 401 or 400, and every request that has been made ends: it returns
\* or throws.
AttemptsAreBounded ==
  \A q \in RequestIds :
    /\ requests[q].calls <= 3
    /\ Len(requests[q].outcomes) <= requests[q].calls
    /\ \A i \in 1..Len(requests[q].outcomes) :
         requests[q].outcomes[i] \in {"ok", "401", "400"} =>
           /\ i = Len(requests[q].outcomes)
           /\ requests[q].calls = i
           /\ Finished(q)

EveryRequestEnds ==
  \A q \in RequestIds : (requests[q].pc # "idle") ~> Finished(q)

RetryTerminates == []AttemptsAreBounded /\ EveryRequestEnds

\* a request has thrown RateLimitError after three invocations, another has
\* returned the result of its second
ThreeAttemptsThenThrown ==
  /\ requests[1].calls = 3 /\ requests[1].pc = "threw"
  /\ requests[1].outcomes = <<"500", "none", "429">>
  /\ requests[2].pc = "returned" /\ requests[2].result = 2

(***************************************************************************)
(* The progress object of overlapping directory runs.                      *)
(***************************************************************************)
\* getIndexingProgress(): a copy of this.indexingProgress
GetIndexingProgress == indexingProgress

\* C34: in every reachable state, also with two indexDirectory runs under
\* way at once, the progress that getIndexingProgress returns has
\* processed + failed <= total.
CountedWithinTotal ==
  GetIndexingProgress.processed + GetIndexingProgress.failed
    <= GetIndexingProgress.total

\* the calls of indexDocument that run r has made and whose batch callback
\* has not ended
CallsOfRun(r) ==
  {t \in TaskIds : /\ tasks[t].origin = "dir" /\ tasks[t].run = r
                   /\ tasks[t].pc \in ActivePcs \cup {"done", "failed"}}

\* no indexDirectory call is under way: each one made has returned or thrown
AllRunsSettled == \A r \in RunIds : runs[r].pc # "running"

\* C35: when an indexDirectory call has returned or thrown, no file of that
\* run is being indexed any more, and with no call under way the counters
\* and the status of the progress stay as they are in every step that is
\* not a new indexDirectory call.
SettledRunsAreQuiet ==
  /\ [](\A r \in RunIds : runs[r].pc = "over" => CallsOfRun(r) = {})
  /\ [][(AllRunsSettled /\ runs' = runs /\ lastOp'.op # "indexDirectory")
          => indexingProgress' = indexingProgress]_vars

(***************************************************************************)
(* RELATED edges.                                                          *)
(***************************************************************************)
\* C36: in every reachable store, no RELATED edge has the same concept as
\* its source and its target, whatever the passes have listed.
NoRelatedSelfEdge ==
  \A r \in relationships : r.type = "RELATED" => r.sourceId # r.targetId

(***************************************************************************)
(* getSimilarDocuments over the stores that indexing with a vector service *)
(* builds.                                                                 *)
(***************************************************************************)
NextSimilar ==
  \/ \E p \in Direct, emb \in BOOLEAN : CallIndexDocument(p, emb, "file")
  \/ \E t \in TaskIds : ProcessFile(t, TextFile(TextLong))
  \/ \E t \in TaskIds : SaveDocument(t, Len(TaskChunks(t)) + 1)
  \/ \E t \in TaskIds : EmbeddingSettled(t, TRUE, FALSE)
  \/ \E t \in TaskIds, ok \in BOOLEAN : UpsertSettled(t, ok, FALSE)
  \/ \E t \in TaskIds, r \in DirResponses : ConceptsSettled(t, r, FALSE)

SpecSimilar == InitVector /\ [][NextSimilar]_vars

\* index.query({vector, topK}): the topK entries of the index that score
\* best, fewer when it holds fewer, in the order of their scores, which is
\* any order
IndexQuery(vs, topK) ==
  LET n == IF Cardinality(vs) < topK THEN Cardinality(vs) ELSE topK
  IN  {m \in [1..n -> vs] : \A i, j \in 1..n : i # j => m[i] # m[j]}

\* match.metadata.documentId of an entry of the index
DocumentOfMatch(v) == v[2]

\* semanticSearch(query, {limit, offset}) with a vector service: the
\* documentIds of the results it may return, one result for every match
\* after the offset whose document row exists
VectorSearch(vs, docs, limit, offset) ==
  {LET rest == SubSeq(m, offset + 1, Len(m))
       kept == SelectSeq(rest, LAMBDA v : HasDocument(docs, DocumentOfMatch(v)))
   IN  [i \in 1..Len(kept) |-> DocumentOfMatch(kept[i])] :
     m \in IndexQuery(vs, limit + offset)}

\* searchDocuments(content, {limit, useSemanticSearch: true}) of a service
\* whose embedding model is loaded
SearchSemantically(limit) ==
  IF vectorStore THEN VectorSearch(vectors, documents, limit, 0)
  ELSE {SemanticSearch(document_chunks, documents, limit, 0)}

\* getSimilarDocuments(id, limit): the documentIds of the results it may
\* return; none when it throws for a document that is not there
GetSimilarDocuments(id, limit) ==
  IF ~HasDocument(documents, id) THEN {}
  ELSE {SelectSeq(rs, LAMBDA d : d # id) : rs \in SearchSemantically(limit + 1)}

SimilarLimits == {1, 2}

\* C37: in every store state, for every document id and every limit, the
\* results of getSimilarDocuments(id, limit) are at most limit and none of
\* them is of the document id.
SimilarAreFewAndOthers ==
  \A id \in DocIds : \A limit \in SimilarLimits :
    \A rs \in GetSimilarDocuments(id, limit) :
      /\ Len(rs) <= limit
      /\ \A i \in 1..Len(rs) : rs[i] # id

(***************************************************************************)
(* The size of the knowledge graph.                                        *)
(***************************************************************************)
\* C38: whatever the store holds, for every maxNodes >= 1 a graph that
\* getKnowledgeGraph({maxNodes}) returns has at most maxNodes nodes.
NodesWithinMaxNodes ==
  \A o \in GraphOptions :
    o.maxNodes >= 1 => \A g \in GetKnowledgeGraph(o) : Len(g.nodes) <= o.maxNodes

====
